---- MODULE Spec2Model ----
(***************************************************************************)
(* Model of the masking engine of martijnboers/unaware:                    *)
(*   - masker.mask / maskUncached with the deterministic cache             *)
(*   - concurrentRunner.Run (dispatcher, workers, supervisor, collector)   *)
(*   - the json / csv / xml processors that drive Run                      *)
(*   - the concurrent text processor                                       *)
(* Strings are sequences of one-character strings.                         *)
(***************************************************************************)
EXTENDS Integers, Sequences, FiniteSets, TLC

\* ------------------------------------------------------------------ bounds
MaxCalls == 3
MaxChunks == 2
MaxWorkers == 2
MaxFirstN == 2
NumCPU == 2
SeedMod == 101
RandSeeds == 2

\* ------------------------------------------------------- program constants
SeedPrefixLen == 64

\* --------------------------------------------------------------- strings
Alphabet ==
  << " ", "-", ".", "0", "1", "2", "3", "4", "5", "6", "7", "8", "9",
     "a", "b", "c", "e", "f", "l", "r", "s", "t", "u",
     "A", "B", "C", "D", "E", "K", "M", "N", "O", "P", "R", "S", "T", "U", "Y",
     "[", "]", "\t" >>

Code(c) == CHOOSE i \in 1..Len(Alphabet) : Alphabet[i] = c

Digits == << "0", "1", "2", "3", "4", "5", "6", "7", "8", "9" >>

IsDigit(c) == \E i \in 1..10 : Digits[i] = c

IsSpace(c) == c \in {" ", "\t"}

IsUpper(c) == c \in {"A", "B", "C", "D", "E", "K", "M", "N", "O", "P", "R", "S", "T", "U", "Y"}

ToUpper(c) ==
  CASE c = "a" -> "A" [] c = "b" -> "B" [] c = "c" -> "C" [] c = "e" -> "E"
    [] c = "r" -> "R" [] c = "s" -> "S" [] c = "t" -> "T" [] c = "u" -> "U"
    [] OTHER -> c

StrTrue == << "t", "r", "u", "e" >>
StrFalse == << "f", "a", "l", "s", "e" >>
StrUnsupportedSeed == << "[", "U", "N", "S", "U", "P", "P", "O", "R", "T", "E", "D", "]" >>
StrMaskedUnsupported ==
  << "[", "M", "A", "S", "K", "E", "D", " ", "U", "N", "S", "U", "P", "P", "O", "R", "T", "E", "D",
     " ", "T", "Y", "P", "E", "]" >>

\* strings.TrimSpace(s) == ""
IsBlank(s) == \A i \in 1..Len(s) : IsSpace(s[i])

\* strings.Repeat(c, n)
Repeat(c, n) == [i \in 1..n |-> c]

\* index of the first occurrence of c in s, 0 if absent
IndexOf(s, c) ==
  IF \E i \in 1..Len(s) : s[i] = c
    THEN CHOOSE i \in 1..Len(s) : s[i] = c /\ \A j \in 1..(i - 1) : s[j] # c
    ELSE 0

\* strings.Contains(s, c) for a one-character c
Contains(s, c) == IndexOf(s, c) # 0

\* strings.Split(s, sep) for a one-character sep: the list of parts
RECURSIVE Split(_, _)
Split(s, sep) ==
  IF ~Contains(s, sep) THEN << s >>
  ELSE LET i == IndexOf(s, sep)
       IN << SubSeq(s, 1, i - 1) >> \o Split(SubSeq(s, i + 1, Len(s)), sep)

\* strings.Join(parts, sep)
RECURSIVE Join(_, _)
Join(parts, sep) ==
  IF Len(parts) = 0 THEN << >>
  ELSE IF Len(parts) = 1 THEN parts[1]
  ELSE parts[1] \o << sep >> \o Join(Tail(parts), sep)

\* ---------------------------------------------------------------- values
\* A scalar as the Go runtime sees it: the dynamic type t, the text s of a
\* string or json.Number, the truth value b of a bool.
Val(t, s, b) == [t |-> t, s |-> s, b |-> b]
Nil == Val("nil", << >>, FALSE)
Str(s) == Val("string", s, FALSE)
Num(s) == Val("number", s, FALSE)
Bool(b) == Val("bool", << >>, b)
Other == Val("other", << >>, FALSE)

\* strconv.FormatBool
FormatBool(b) == IF b THEN StrTrue ELSE StrFalse

\* ---------------------------------------------------------------- seeding
\* deterministicSeeder.createSeed: the input is cut to its first 64 bytes and
\* hashed with the salt; the keyed hash is abstracted to a polynomial hash.
RECURSIVE HashFrom(_, _)
HashFrom(h, s) ==
  IF Len(s) = 0 THEN h
  ELSE HashFrom((h * 31 + Code(Head(s))) % SeedMod, Tail(s))

createSeed(salt, s) ==
  LET t == IF Len(s) > SeedPrefixLen THEN SubSeq(s, 1, SeedPrefixLen) ELSE s
  IN HashFrom(salt % SeedMod, t)

\* deterministicSeeder.SeedFaker: the canonical string of the input
seedInput(v) ==
  CASE v.t = "string" -> v.s
    [] v.t = "number" -> v.s
    [] v.t = "bool" -> FormatBool(v.b)
    [] OTHER -> StrUnsupportedSeed

\* the i-th draw of Intn(n) from a generator seeded with seed
Intn(seed, i, n) == ((seed * 7) + (seed \div 10) + (i * 13)) % n

\* faker.Word over a small dictionary
Words == << << "a", "b" >>, << "c", "a", "b" >>, << "t", "r", "u", "e" >>, << "s", "e", "t" >> >>

Word(seed) == Words[Intn(seed, 0, Len(Words)) + 1]

\* cases.Title(language.English).String for a single lower-case word
Title(w) == IF Len(w) = 0 THEN w ELSE << ToUpper(w[1]) >> \o Tail(w)

\* ------------------------------------------------------------- detectors
\* Input strings are at most five characters over Alphabet.  The detectors
\* of maskUncached that come before the integer test (UUID, IBAN, card,
\* phone, currency, ULID, KSUID, URL, email, MAC, IP), the date layouts and
\* the free-form date parser need longer strings or characters such as
\* '+', '/', ':', '@', '$'; none of them accepts a string of this universe.
AllDigits(s) == Len(s) > 0 /\ \A i \in 1..Len(s) : IsDigit(s[i])

StripSign(s) == IF Len(s) > 0 /\ s[1] = "-" THEN Tail(s) ELSE s

\* strconv.ParseInt(s, 10, 64) succeeds
ParseInt(s) == AllDigits(StripSign(s))

\* strconv.ParseFloat(s, 64) succeeds: sign, digits with at most one point,
\* at least one digit
ParseFloat(s) ==
  LET m == StripSign(s)
      p == IndexOf(m, ".")
      d == IF p = 0 THEN m ELSE SubSeq(m, 1, p - 1) \o SubSeq(m, p + 1, Len(m))
  IN AllDigits(d)

\* numLikeRegex ^[\d\s-]+$
NumLike(s) == Len(s) > 0 /\ \A i \in 1..Len(s) : IsDigit(s[i]) \/ IsSpace(s[i]) \/ s[i] = "-"

\* the number of random digits drawn before position i of s: one for every
\* '#' (hash = TRUE, Numerify) or for every digit (hash = FALSE)
RECURSIVE DrawsBefore(_, _, _)
DrawsBefore(s, i, hash) ==
  IF i <= 1 THEN 0
  ELSE DrawsBefore(s, i - 1, hash)
       + (IF (IF hash THEN s[i - 1] = "#" ELSE IsDigit(s[i - 1])) THEN 1 ELSE 0)

\* faker.Numerify(template) on a generator that was seeded with seed and has
\* made off draws since: the k-th '#' takes the k-th digit drawn now; gofakeit
\* then replaces a '0' at the front of the result by a digit 1..8 drawn next
NumerifyAt(seed, off, template) ==
  LET filled == [i \in 1..Len(template) |->
                   IF template[i] = "#"
                     THEN Digits[Intn(seed, off + DrawsBefore(template, i, TRUE), 10) + 1]
                     ELSE template[i]]
      draws == off + DrawsBefore(template, Len(template) + 1, TRUE)
  IN IF Len(filled) > 0 /\ filled[1] = "0"
       THEN [filled EXCEPT ![1] = Digits[Intn(seed, draws, 8) + 2]]
       ELSE filled

\* faker.Numerify(template) right after the generator was seeded with seed
NumerifyT(seed, template) == NumerifyAt(seed, 0, template)

\* template of the decimal-string branch (part_023:337-346)
FloatTemplate(s) ==
  LET parts == Split(s, ".")
      integerPart == parts[1]
      fractionalPart == IF Len(parts) > 1 THEN parts[2] ELSE << >>
  IN Repeat("#", Len(integerPart))
     \o (IF fractionalPart # << >> THEN << "." >> \o Repeat("#", Len(fractionalPart)) ELSE << >>)

\* template of the json.Number branch (part_023:382-388)
NumberTemplate(s) ==
  IF Contains(s, ".")
    THEN LET parts == Split(s, ".")
         IN Repeat("#", Len(parts[1])) \o << "." >> \o Repeat("#", Len(parts[2]))
    ELSE Repeat("#", Len(s))

\* a digits-with-separators branch that writes a digit for every character
MaskDigitsEverywhere(seed, s) ==
  [i \in 1..Len(s) |-> Digits[Intn(seed, i - 1, 10) + 1]]

\* digits-with-separators branch (part_023:354-364)
MaskDigits(seed, s) ==
  [i \in 1..Len(s) |->
     IF IsDigit(s[i]) THEN Digits[Intn(seed, DrawsBefore(s, i, FALSE), 10) + 1] ELSE s[i]]

\* The seeder of a masker: det selects deterministicSeeder (with its salt),
\* otherwise randomSeeder, whose SeedFaker is a no-op so that the faker keeps
\* drawing from its own stream, here the state r.
Seeder(det, salt, r) == [det |-> det, salt |-> salt, r |-> r]

\* seeder.SeedFaker(m.faker, value)
SeedFaker(sd, v) == IF sd.det THEN createSeed(sd.salt, seedInput(v)) ELSE sd.r

\* seeder.SeedFakerForWord(m.faker, word) for the i-th word
SeedFakerForWord(sd, word, i) == IF sd.det THEN createSeed(sd.salt, word) ELSE sd.r + i

\* a word fallback that seeds the generator with the whole value for every word
MaskWordsValueSeed(sd, s) ==
  LET words == Split(s, " ")
      maskedWords ==
        [i \in 1..Len(words) |->
           LET maskedWord == Word(SeedFakerForWord(sd, s, i))
           IN IF Len(words[i]) > 0 /\ IsUpper(words[i][1]) THEN Title(maskedWord) ELSE maskedWord]
  IN Join(maskedWords, " ")

\* word fallback (part_023:368-380)
MaskWords(sd, s) ==
  LET words == Split(s, " ")
      maskedWords ==
        [i \in 1..Len(words) |->
           LET maskedWord == Word(SeedFakerForWord(sd, words[i], i))
           IN IF Len(words[i]) > 0 /\ IsUpper(words[i][1]) THEN Title(maskedWord) ELSE maskedWord]
  IN Join(maskedWords, " ")

\* masker.maskUncached
maskUncached(sd, v) ==
  LET seed == SeedFaker(sd, v)
  IN CASE v.t = "string" ->
            IF IsBlank(v.s) THEN v
            ELSE IF ParseInt(v.s) THEN Str(NumerifyT(seed, Repeat("#", Len(v.s))))
            ELSE IF ParseFloat(v.s) THEN Str(NumerifyT(seed, FloatTemplate(v.s)))
            ELSE IF NumLike(v.s) THEN Str(MaskDigits(seed, v.s))
            ELSE Str(MaskWords(sd, v.s))
       [] v.t = "number" -> Num(NumerifyT(seed, NumberTemplate(v.s)))
       [] v.t = "bool" -> Bool(Intn(seed, 0, 2) = 1)
       [] OTHER -> Str(StrMaskedUnsupported)

\* masker.getCacheKey
getCacheKey(v) ==
  CASE v.t = "string" -> v.s
    [] v.t = "number" -> v.s
    [] v.t = "bool" -> FormatBool(v.b)
    [] OTHER -> << >>

\* ristretto cache: a set of entries, at most one per key
CacheGet(c, key) == {e \in c : e.k = key}

CacheSet(c, key, val) == {e \in c : e.k # key} \cup {[k |-> key, v |-> val]}

\* masker.mask: the possible (result, cache afterwards) pairs of one call.
\* The cache exists only for the deterministic method.  ristretto applies a
\* Set asynchronously and may drop it, so a Set either shows or is lost and a
\* Get may miss an entry that was set.
mask(c, sd, v) ==
  IF v.t = "nil" THEN {[out |-> Nil, cache |-> c]}
  ELSE LET cacheKey == getCacheKey(v)
           hits == IF sd.det THEN CacheGet(c, cacheKey) ELSE {}
           maskedValue == maskUncached(sd, v)
       IN {[out |-> e.v, cache |-> c] : e \in hits}
          \cup {[out |-> maskedValue, cache |-> c2] :
                  c2 \in IF sd.det THEN {CacheSet(c, cacheKey, maskedValue), c} ELSE {c}}

\* worker.go recursiveMask on a scalar chunk with no include and no exclude
\* pattern configured: shouldMask accepts every key, the scalar is masked.
recursiveMask(c, sd, data) == mask(c, sd, data)

\* ------------------------------------------------------------- the state
VARIABLES
  format,            \* AppConfig.Format; "mask" when the masker is called directly
  det,               \* Masker.Method = deterministic
  cpuCount,          \* AppConfig.CPUCount
  firstN,            \* AppConfig.FirstN
  stream,            \* the input stream (see Streams)
  writerFails,       \* the io.Writer given to Process can fail a write
  include,           \* AppConfig.Include: the include patterns
  exclude,           \* AppConfig.Exclude: the exclude patterns
  children,          \* XML: the child elements of the root, in document order
  pcM,               \* position of the goroutine that called Process / Run
  pcD,               \* position of the dispatcher (Run) or line reader (text)
  pcW,               \* position of every worker
  job,               \* the job the dispatcher holds while it blocks on jobs <-
  jobIndex,          \* dispatcher's jobIndex
  nread,             \* records the chunk reader has returned (recordCount)
  dispatchErr,       \* Run's dispatchErr
  readerFailed,      \* a read of the underlying reader returned a non-EOF error
  jobsClosed,        \* close(jobs) happened
  resultsClosed,     \* close(results) happened
  jobsQ,             \* text: buffered jobs channel
  resultsQ,          \* text: buffered results channel
  wres,              \* the result a worker holds while it blocks on results <-
  cache,             \* the cache of every masker (0: the directly called one)
  recvBy,            \* per chunk id, the workers that received it
  maskCount,         \* per chunk id, how often it was masked
  resultsBuffer,     \* collector's resultsBuffer
  arrived,           \* the chunk ids in the order the collector received their results
  nextIndexToWrite,  \* collector's nextIndexToWrite
  isFirst,           \* collector's isFirst
  startWritten,      \* number of successful WriteStart calls
  written,           \* the items passed to successful WriteItem calls / lines written
  endWritten,        \* number of successful WriteEnd calls
  retval,            \* what Process / Run returned
  ncalls,            \* direct mask calls made
  lastIn,            \* argument of the last direct mask call
  lastOut,           \* its result
  lastKey,           \* key argument of the last direct shouldMask / recursiveMask call
  lastAsked          \* the keys that call passed to shouldMask, in call order

cfgVars == << format, det, cpuCount, firstN, stream, writerFails, include, exclude, children >>
maskVars == << ncalls, lastIn, lastOut, lastKey, lastAsked >>
runVars ==
  << pcM, pcD, pcW, job, jobIndex, nread, dispatchErr, readerFailed, jobsClosed, resultsClosed,
     jobsQ, resultsQ, wres, recvBy, maskCount, resultsBuffer, arrived, nextIndexToWrite, isFirst,
     startWritten, written, endWritten, retval >>
vars == << cfgVars, maskVars, runVars, cache >>

Salt == 7
PoolMax == IF MaxWorkers > NumCPU THEN MaxWorkers ELSE NumCPU
Workers == 1..PoolMax
Maskers == 0..PoolMax
NoJob == [index |-> -1, id |-> 0, data |-> Nil]

\* sequences over S of length at most n
SeqUpTo(S, n) == UNION {[1..k -> S] : k \in 0..n}

\* the seeders a mask call can run with: the deterministic one, or the
\* random one in any state of its stream
Seeders == IF det THEN {Seeder(TRUE, Salt, 0)} ELSE {Seeder(FALSE, Salt, r) : r \in 0..(RandSeeds - 1)}

\* ---------------------------------------------------- direct mask calls
MaskInputs ==
  { Nil, Str(<< >>), Str(<< " " >>), Str(StrTrue), Str(<< "1", "2" >>), Str(<< "1", ".", "5" >>),
    Str(<< "1", "-", "2" >>), Str(<< "A", "b", " ", "c" >>),
    Bool(TRUE), Bool(FALSE), Num(<< "1", "2" >>), Num(<< "1", ".", "5" >>), Other }

IdleRun ==
  /\ pcM = "idle" /\ pcD = "idle" /\ pcW = [w \in Workers |-> "idle"]
  /\ job = NoJob /\ jobIndex = 0 /\ nread = 0 /\ dispatchErr = "nil" /\ readerFailed = FALSE
  /\ jobsClosed = FALSE /\ resultsClosed = FALSE /\ jobsQ = << >> /\ resultsQ = << >>
  /\ wres = [w \in Workers |-> NoJob]
  /\ recvBy = [i \in 1..MaxChunks |-> {}] /\ maskCount = [i \in 1..MaxChunks |-> 0]
  /\ resultsBuffer = {} /\ arrived = << >> /\ nextIndexToWrite = 0 /\ isFirst = TRUE
  /\ startWritten = 0 /\ written = << >> /\ endWritten = 0 /\ retval = "pending"

EmptyStream == [head |-> "empty", list |-> TRUE, records |-> << >>, tail |-> "eof"]

\* a masker built by newMasker and then called directly
InitMask ==
  /\ format = "mask" /\ det \in BOOLEAN /\ cpuCount = 1 /\ firstN = 0 /\ stream = EmptyStream
  /\ writerFails = FALSE
  /\ include = << >> /\ exclude = << >> /\ children = << >>
  /\ IdleRun
  /\ cache = [m \in Maskers |-> {}]
  /\ ncalls = 0 /\ lastIn = Nil /\ lastOut = Nil /\ lastKey = << >> /\ lastAsked = << >>

\* m.mask(v) on the masker
MaskCall ==
  /\ format = "mask" /\ ncalls < MaxCalls
  /\ \E v \in MaskInputs : \E sd \in Seeders : \E r \in mask(cache[0], sd, v) :
       /\ lastIn' = v /\ lastOut' = r.out
       /\ cache' = [cache EXCEPT ![0] = r.cache]
  /\ ncalls' = ncalls + 1
  /\ UNCHANGED << cfgVars, runVars, lastKey, lastAsked >>

NextMask == MaskCall

SpecMask == InitMask /\ [][NextMask]_vars

\* C9: a deterministic masker returns a value of the runtime type of its
\* argument (string, json.Number, bool, nil), whatever it masked before.
C9_TypePreserved ==
  (format = "mask" /\ det /\ ncalls > 0 /\ lastIn.t \in {"string", "number", "bool", "nil"})
    => lastOut.t = lastIn.t

\* C10: nil and every empty or whitespace-only string pass through mask
\* unchanged, in both modes, whatever the masker masked before.
C10_BlankPassthrough ==
  (format = "mask" /\ ncalls > 0 /\ (lastIn.t = "nil" \/ (lastIn.t = "string" /\ IsBlank(lastIn.s))))
    => lastOut = lastIn

\* ------------------------------------------------------ the input stream
\* head:    what the first read of the stream gives: data ("ok"), end of
\*          stream ("empty") or a read failure ("ioerr")
\* list:    the top level is a list of records (JSON root array, XML root
\*          whose first two children share a tag, CSV rows, text lines)
\* records: the records the stream holds before it ends
\* tail:    after the records, the stream ends properly ("eof"), the
\*          reader fails ("ioerr") or the bytes that follow are not valid
\*          JSON / CSV / XML ("malformed")
\* A JSON root object is one record; a read failure inside it leaves none.
Formats == {"json", "xml", "csv", "text"}

RecordValues(f) == IF f = "json" THEN {Str(StrTrue), Bool(TRUE)} ELSE {Str(StrTrue), Str(<< "1", "2" >>)}

Streams(f) ==
  {[head |-> h, list |-> TRUE, records |-> << >>, tail |-> "eof"] : h \in {"empty", "ioerr"}}
  \cup
  {st \in [head : {"ok"}, list : BOOLEAN, records : SeqUpTo(RecordValues(f), MaxChunks),
           tail : {"eof", "ioerr", "malformed"}] :
     /\ f = "text" => st.tail # "malformed"
     /\ f \in {"csv", "text"} => st.list
     /\ f = "xml" => (st.list <=> Len(st.records) >= 2)
     /\ (f = "json" /\ ~st.list) =>
          \/ Len(st.records) = 1 /\ st.tail = "eof"
          \/ Len(st.records) = 0 /\ st.tail # "eof"}

\* XML child elements of the root: the tag name, and whether the element
\* holds a nested <a> element
Child(tag, nested) == [tag |-> tag, nested |-> nested]

ItemTag == << "a" >>

\* a root whose n children are all <a> elements without nested elements
ListOf(n) == [i \in 1..n |-> Child(ItemTag, FALSE)]

Init ==
  /\ format \in Formats /\ det \in BOOLEAN /\ cpuCount \in 0..MaxWorkers /\ firstN \in 0..MaxFirstN
  /\ stream \in Streams(format) /\ writerFails \in BOOLEAN
  /\ include = << >> /\ exclude = << >>
  /\ children = IF format = "xml" THEN ListOf(Len(stream.records)) ELSE << >>
  /\ IdleRun
  /\ cache = [m \in Maskers |-> {}]
  /\ ncalls = 0 /\ lastIn = Nil /\ lastOut = Nil /\ lastKey = << >> /\ lastAsked = << >>

\* a chunk reader whose FirstN test is off by one (recordCount > FirstN)
chunkReaderOffByOne ==
  IF firstN > 0 /\ nread > firstN THEN [kind |-> "eof", data |-> Nil]
  ELSE IF nread < Len(stream.records) THEN [kind |-> "chunk", data |-> stream.records[nread + 1]]
  ELSE IF stream.tail = "eof" THEN [kind |-> "eof", data |-> Nil]
  ELSE IF stream.tail = "ioerr" THEN [kind |-> "readErr", data |-> Nil]
  ELSE IF stream.tail = "truncated" THEN [kind |-> "eof", data |-> Nil]
  ELSE [kind |-> "syntaxErr", data |-> Nil]

\* the chunk reader closures of processRootArray, csvProcessor.Process and
\* createXMLChunkReader: the next record, io.EOF, or the error of the
\* decoder (the reader's error or a syntax error).  Where a JSON array
\* stops at the end of the stream without its ']' ("truncated"),
\* decoder.More() is false and decoder.Token() returns io.EOF, which the
\* closure hands on as io.EOF.
chunkReader ==
  IF firstN > 0 /\ nread >= firstN THEN [kind |-> "eof", data |-> Nil]
  ELSE IF nread < Len(stream.records) THEN [kind |-> "chunk", data |-> stream.records[nread + 1]]
  ELSE IF stream.tail = "eof" THEN [kind |-> "eof", data |-> Nil]
  ELSE IF stream.tail = "ioerr" THEN [kind |-> "readErr", data |-> Nil]
  ELSE IF stream.tail = "truncated" THEN [kind |-> "eof", data |-> Nil]
  ELSE [kind |-> "syntaxErr", data |-> Nil]

\* a write to the output succeeds, or fails if the writer can fail
WriteOutcomes == IF writerFails THEN {TRUE, FALSE} ELSE {TRUE}

\* the size of the worker pool: Run launches cpuCount workers; the text
\* processor replaces a count <= 0 by runtime.NumCPU()
poolSize == IF format = "text" /\ cpuCount <= 0 THEN NumCPU ELSE cpuCount

Active == 1..poolSize

\* ------------------------------------------------------------------ Start
\* glob.Compile(pattern, '.') fails on a character class that is not closed
Compiles(p) == \A i \in 1..Len(p) : p[i] # "["

AllCompile(ps) == \A i \in 1..Len(ps) : Compiles(ps[i])

\* a Start that does not compile the exclude patterns
ConfigOkIncludeOnly == AllCompile(include) /\ format \in Formats

\* Start reaches p.Process: every include and exclude pattern compiled and
\* the format is one of the switch
ConfigOk == AllCompile(include) /\ AllCompile(exclude) /\ format \in Formats

\* Start returns the error of glob.Compile or "unsupported format"
StartReject ==
  /\ pcM = "idle" /\ format \notin {"mask", "filter", "tree"} /\ ~ConfigOk
  /\ retval' = "configErr" /\ pcM' = "returned"
  /\ UNCHANGED << cfgVars, maskVars, cache, pcD, pcW, job, jobIndex, nread, dispatchErr,
                  readerFailed, jobsClosed, resultsClosed, jobsQ, resultsQ, wres, recvBy,
                  maskCount, resultsBuffer, arrived, nextIndexToWrite, isFirst, startWritten,
                  written, endWritten >>

\* a Process that hands an empty stream to Run instead of returning nil
ProcessStartRunsEmpty ==
  /\ format \in {"json", "xml", "csv"} /\ pcM = "idle" /\ ConfigOk
  /\ CASE stream.head = "ioerr" ->
            /\ readerFailed' = TRUE /\ retval' = "readErr" /\ pcM' = "returned"
            /\ UNCHANGED << pcD, pcW >>
       [] stream.head = "empty" \/ (stream.head = "ok" /\ stream.list) ->
            /\ pcM' = "writeStart" /\ pcD' = "read"
            /\ pcW' = [w \in Workers |-> IF w \in Active THEN "recv" ELSE "idle"]
            /\ UNCHANGED << retval, readerFailed >>
       [] OTHER ->
            /\ pcM' = "serial"
            /\ UNCHANGED << pcD, pcW, retval, readerFailed >>
  /\ UNCHANGED << cfgVars, maskVars, cache, job, jobIndex, nread, dispatchErr, jobsClosed,
                  resultsClosed, jobsQ, resultsQ, wres, recvBy, maskCount, resultsBuffer, arrived,
                  nextIndexToWrite, isFirst, startWritten, written, endWritten >>

\* ----------------------------------------------- json / csv / xml Process
\* Process up to the call of Run: the JSON peek, the CSV header read, the
\* XML list detection.  A failed first read is returned, an empty stream
\* returns nil, a list-shaped document starts Run (workers, dispatcher and
\* supervisor are launched), anything else takes the serial path.
ProcessStart ==
  /\ format \in {"json", "xml", "csv"} /\ pcM = "idle" /\ ConfigOk
  /\ CASE stream.head = "ioerr" ->
            /\ readerFailed' = TRUE /\ retval' = "readErr" /\ pcM' = "returned"
            /\ UNCHANGED << pcD, pcW >>
       [] stream.head = "empty" ->
            /\ retval' = "nil" /\ pcM' = "returned"
            /\ UNCHANGED << pcD, pcW, readerFailed >>
       [] stream.head = "ok" /\ stream.list ->
            /\ pcM' = "writeStart" /\ pcD' = "read"
            /\ pcW' = [w \in Workers |-> IF w \in Active THEN "recv" ELSE "idle"]
            /\ UNCHANGED << retval, readerFailed >>
       [] OTHER ->
            /\ pcM' = "serial"
            /\ UNCHANGED << pcD, pcW, retval, readerFailed >>
  /\ UNCHANGED << cfgVars, maskVars, cache, job, jobIndex, nread, dispatchErr, jobsClosed,
                  resultsClosed, jobsQ, resultsQ, wres, recvBy, maskCount, resultsBuffer, arrived,
                  nextIndexToWrite, isFirst, startWritten, written, endWritten >>

\* processConcurrentObject (JSON root object) and xmlProcessor.processSerially:
\* one goroutine reads, masks with one masker and writes; a read failure is
\* returned.
ProcessSerial ==
  /\ pcM = "serial"
  /\ IF nread < Len(stream.records)
       THEN \E sd \in Seeders : \E r \in recursiveMask(cache[0], sd, stream.records[nread + 1]) :
              /\ cache' = [cache EXCEPT ![0] = r.cache]
              /\ written' = Append(written, [id |-> nread + 1, data |-> r.out, first |-> nread = 0])
              /\ maskCount' = [maskCount EXCEPT ![nread + 1] = @ + 1]
              /\ nread' = nread + 1
              /\ UNCHANGED << pcM, retval, readerFailed >>
       ELSE /\ pcM' = "returned"
            /\ retval' = CASE stream.tail = "ioerr" -> "readErr"
                             [] stream.tail = "malformed" -> "syntaxErr"
                             [] OTHER -> "nil"
            /\ readerFailed' = (stream.tail = "ioerr")
            /\ UNCHANGED << cache, written, maskCount, nread >>
  /\ UNCHANGED << cfgVars, maskVars, pcD, pcW, job, jobIndex, dispatchErr, jobsClosed,
                  resultsClosed, jobsQ, resultsQ, wres, recvBy, resultsBuffer, arrived,
                  nextIndexToWrite, isFirst, startWritten, endWritten >>

\* a dispatcher that reads the next chunk without waiting for a worker to
\* take the previous one
DispatcherReadAhead ==
  /\ pcD \in {"read", "send"} /\ format # "text"
  /\ LET r == chunkReader
     IN CASE r.kind = "eof" ->
               /\ pcD' = "close"
               /\ UNCHANGED << job, nread, dispatchErr, readerFailed >>
          [] r.kind \in {"readErr", "syntaxErr"} ->
               /\ dispatchErr' = r.kind /\ readerFailed' = (r.kind = "readErr") /\ pcD' = "close"
               /\ UNCHANGED << job, nread >>
          [] OTHER ->
               /\ job' = [index |-> jobIndex, id |-> nread + 1, data |-> r.data]
               /\ nread' = nread + 1 /\ pcD' = "send"
               /\ UNCHANGED << dispatchErr, readerFailed >>
  /\ UNCHANGED << cfgVars, maskVars, cache, pcM, pcW, jobIndex, jobsClosed, resultsClosed,
                  jobsQ, resultsQ, wres, recvBy, maskCount, resultsBuffer, arrived, nextIndexToWrite,
                  isFirst, startWritten, written, endWritten, retval >>

\* ------------------------------------------------- concurrentRunner.Run
\* dispatcher: dataChunk, err := crr()
DispatcherRead ==
  /\ pcD = "read" /\ format # "text"
  /\ LET r == chunkReader
     IN CASE r.kind = "eof" ->
               /\ pcD' = "close"
               /\ UNCHANGED << job, nread, dispatchErr, readerFailed >>
          [] r.kind \in {"readErr", "syntaxErr"} ->
               /\ dispatchErr' = r.kind /\ readerFailed' = (r.kind = "readErr") /\ pcD' = "close"
               /\ UNCHANGED << job, nread >>
          [] OTHER ->
               /\ job' = [index |-> jobIndex, id |-> nread + 1, data |-> r.data]
               /\ nread' = nread + 1 /\ pcD' = "send"
               /\ UNCHANGED << dispatchErr, readerFailed >>
  /\ UNCHANGED << cfgVars, maskVars, cache, pcM, pcW, jobIndex, jobsClosed, resultsClosed,
                  jobsQ, resultsQ, wres, recvBy, maskCount, resultsBuffer, arrived, nextIndexToWrite,
                  isFirst, startWritten, written, endWritten, retval >>

\* a dispatcher that forgets jobIndex++ after the send
WorkerRecvSameIndex(w) ==
  /\ pcD = "send" /\ format # "text" /\ pcW[w] = "recv"
  /\ \E sd \in Seeders : \E r \in recursiveMask(cache[w], sd, job.data) :
       /\ cache' = [cache EXCEPT ![w] = r.cache]
       /\ wres' = [wres EXCEPT ![w] = [index |-> job.index, id |-> job.id, data |-> r.out]]
  /\ pcW' = [pcW EXCEPT ![w] = "send"]
  /\ recvBy' = [recvBy EXCEPT ![job.id] = @ \cup {w}]
  /\ maskCount' = [maskCount EXCEPT ![job.id] = @ + 1]
  /\ job' = NoJob /\ pcD' = "read"
  /\ UNCHANGED << cfgVars, maskVars, pcM, jobIndex, nread, dispatchErr, readerFailed, jobsClosed,
                  resultsClosed, jobsQ, resultsQ, resultsBuffer, arrived, nextIndexToWrite, isFirst,
                  startWritten, written, endWritten, retval >>

\* workers that all use one masker instead of the one each got from
\* methodFactory
WorkerRecvSharedMasker(w) ==
  /\ pcD = "send" /\ format # "text" /\ pcW[w] = "recv"
  /\ \E sd \in Seeders : \E r \in recursiveMask(cache[1], sd, job.data) :
       /\ cache' = [cache EXCEPT ![1] = r.cache]
       /\ wres' = [wres EXCEPT ![w] = [index |-> job.index, id |-> job.id, data |-> r.out]]
  /\ pcW' = [pcW EXCEPT ![w] = "send"]
  /\ recvBy' = [recvBy EXCEPT ![job.id] = @ \cup {w}]
  /\ maskCount' = [maskCount EXCEPT ![job.id] = @ + 1]
  /\ job' = NoJob /\ jobIndex' = jobIndex + 1 /\ pcD' = "read"
  /\ UNCHANGED << cfgVars, maskVars, pcM, nread, dispatchErr, readerFailed, jobsClosed,
                  resultsClosed, jobsQ, resultsQ, resultsBuffer, arrived, nextIndexToWrite, isFirst,
                  startWritten, written, endWritten, retval >>

\* jobs <- job meets a worker's receive (unbuffered channel); the worker
\* masks the chunk with its own masker and then blocks on results <-
WorkerRecv(w) ==
  /\ pcD = "send" /\ format # "text" /\ pcW[w] = "recv"
  /\ \E sd \in Seeders : \E r \in recursiveMask(cache[w], sd, job.data) :
       /\ cache' = [cache EXCEPT ![w] = r.cache]
       /\ wres' = [wres EXCEPT ![w] = [index |-> job.index, id |-> job.id, data |-> r.out]]
  /\ pcW' = [pcW EXCEPT ![w] = "send"]
  /\ recvBy' = [recvBy EXCEPT ![job.id] = @ \cup {w}]
  /\ maskCount' = [maskCount EXCEPT ![job.id] = @ + 1]
  /\ job' = NoJob /\ jobIndex' = jobIndex + 1 /\ pcD' = "read"
  /\ UNCHANGED << cfgVars, maskVars, pcM, nread, dispatchErr, readerFailed, jobsClosed,
                  resultsClosed, jobsQ, resultsQ, resultsBuffer, arrived, nextIndexToWrite, isFirst,
                  startWritten, written, endWritten, retval >>

\* a dispatcher that returns without close(jobs)
DispatcherNoClose ==
  /\ pcD = "close"
  /\ pcD' = "done"
  /\ UNCHANGED << cfgVars, maskVars, cache, pcM, pcW, job, jobIndex, nread, dispatchErr,
                  readerFailed, jobsClosed, resultsClosed, jobsQ, resultsQ, wres, recvBy, maskCount,
                  resultsBuffer, arrived, nextIndexToWrite, isFirst, startWritten, written, endWritten,
                  retval >>

\* dispatcher: close(jobs)
DispatcherClose ==
  /\ pcD = "close"
  /\ jobsClosed' = TRUE /\ pcD' = "done"
  /\ UNCHANGED << cfgVars, maskVars, cache, pcM, pcW, job, jobIndex, nread, dispatchErr,
                  readerFailed, resultsClosed, jobsQ, resultsQ, wres, recvBy, maskCount,
                  resultsBuffer, arrived, nextIndexToWrite, isFirst, startWritten, written, endWritten,
                  retval >>

\* worker: range jobs ends on the closed (and drained) channel; wg.Done()
WorkerExit(w) ==
  /\ pcW[w] = "recv" /\ jobsClosed /\ jobsQ = << >>
  /\ pcW' = [pcW EXCEPT ![w] = "done"]
  /\ UNCHANGED << cfgVars, maskVars, cache, pcM, pcD, job, jobIndex, nread, dispatchErr,
                  readerFailed, jobsClosed, resultsClosed, jobsQ, resultsQ, wres, recvBy,
                  maskCount, resultsBuffer, arrived, nextIndexToWrite, isFirst, startWritten, written,
                  endWritten, retval >>

\* a supervisor that closes results without wg.Wait()
SupervisorCloseNoWait ==
  /\ pcD # "idle" /\ ~resultsClosed
  /\ resultsClosed' = TRUE
  /\ UNCHANGED << cfgVars, maskVars, cache, pcM, pcD, pcW, job, jobIndex, nread, dispatchErr,
                  readerFailed, jobsClosed, jobsQ, resultsQ, wres, recvBy, maskCount,
                  resultsBuffer, arrived, nextIndexToWrite, isFirst, startWritten, written, endWritten,
                  retval >>

\* supervisor: wg.Wait(); close(results)
SupervisorClose ==
  /\ pcD # "idle" /\ ~resultsClosed
  /\ \A w \in Active : pcW[w] = "done"
  /\ resultsClosed' = TRUE
  /\ UNCHANGED << cfgVars, maskVars, cache, pcM, pcD, pcW, job, jobIndex, nread, dispatchErr,
                  readerFailed, jobsClosed, jobsQ, resultsQ, wres, recvBy, maskCount,
                  resultsBuffer, arrived, nextIndexToWrite, isFirst, startWritten, written, endWritten,
                  retval >>

\* a.WriteStart(w): success, or the error is returned
WriteStart ==
  /\ pcM = "writeStart"
  /\ \E ok \in WriteOutcomes :
       IF ok THEN /\ startWritten' = startWritten + 1 /\ pcM' = "recv" /\ UNCHANGED retval
       ELSE /\ retval' = "asmErr" /\ pcM' = "returned" /\ UNCHANGED startWritten
  /\ UNCHANGED << cfgVars, maskVars, cache, pcD, pcW, job, jobIndex, nread, dispatchErr,
                  readerFailed, jobsClosed, resultsClosed, jobsQ, resultsQ, wres, recvBy,
                  maskCount, resultsBuffer, arrived, nextIndexToWrite, isFirst, written, endWritten >>

\* collector: res := <-results meets a worker's send; resultsBuffer[res.index] = res.data
CollectorRecv(w) ==
  /\ pcM = "recv" /\ pcW[w] = "send"
  /\ resultsBuffer' = {e \in resultsBuffer : e.index # wres[w].index} \cup {wres[w]}
  /\ arrived' = Append(arrived, wres[w].id)
  /\ wres' = [wres EXCEPT ![w] = NoJob]
  /\ pcW' = [pcW EXCEPT ![w] = "recv"]
  /\ pcM' = "flush"
  /\ UNCHANGED << cfgVars, maskVars, cache, pcD, job, jobIndex, nread, dispatchErr,
                  readerFailed, jobsClosed, resultsClosed, jobsQ, resultsQ, recvBy, maskCount,
                  nextIndexToWrite, isFirst, startWritten, written, endWritten, retval >>

\* a collector that writes whatever result is buffered
anyBuffered == resultsBuffer

\* the entry of resultsBuffer the inner loop looks up
nextBuffered == {e \in resultsBuffer : e.index = nextIndexToWrite}

\* a collector that leaves isFirst set after a WriteItem
CollectorFlushKeepFirst ==
  /\ pcM = "flush"
  /\ IF nextBuffered = {}
       THEN /\ pcM' = "recv"
            /\ UNCHANGED << resultsBuffer, nextIndexToWrite, isFirst, written, retval >>
       ELSE \E e \in nextBuffered : \E ok \in WriteOutcomes :
              IF ok
                THEN /\ written' = Append(written, [id |-> e.id, data |-> e.data, first |-> isFirst])
                     /\ resultsBuffer' = resultsBuffer \ {e}
                     /\ nextIndexToWrite' = nextIndexToWrite + 1
                     /\ UNCHANGED << pcM, retval, isFirst >>
                ELSE /\ retval' = "asmErr" /\ pcM' = "returned"
                     /\ UNCHANGED << resultsBuffer, nextIndexToWrite, isFirst, written >>
  /\ UNCHANGED << cfgVars, maskVars, cache, pcD, pcW, job, jobIndex, nread, dispatchErr,
                  readerFailed, jobsClosed, resultsClosed, jobsQ, resultsQ, wres, recvBy,
                  maskCount, arrived, startWritten, endWritten >>

\* a collector that leaves the written entry in resultsBuffer
CollectorFlushNoDelete ==
  /\ pcM = "flush"
  /\ IF nextBuffered = {}
       THEN /\ pcM' = "recv"
            /\ UNCHANGED << resultsBuffer, nextIndexToWrite, isFirst, written, retval >>
       ELSE \E e \in nextBuffered : \E ok \in WriteOutcomes :
              IF ok
                THEN /\ written' = Append(written, [id |-> e.id, data |-> e.data, first |-> isFirst])
                     /\ isFirst' = FALSE
                     /\ nextIndexToWrite' = nextIndexToWrite + 1
                     /\ UNCHANGED << pcM, retval, resultsBuffer >>
                ELSE /\ retval' = "asmErr" /\ pcM' = "returned"
                     /\ UNCHANGED << resultsBuffer, nextIndexToWrite, isFirst, written >>
  /\ UNCHANGED << cfgVars, maskVars, cache, pcD, pcW, job, jobIndex, nread, dispatchErr,
                  readerFailed, jobsClosed, resultsClosed, jobsQ, resultsQ, wres, recvBy,
                  maskCount, arrived, startWritten, endWritten >>

\* collector, one turn of the inner loop: write resultsBuffer[nextIndexToWrite]
\* if present (a failed WriteItem is returned), else back to the receive
CollectorFlush ==
  /\ pcM = "flush"
  /\ IF nextBuffered = {}
       THEN /\ pcM' = "recv"
            /\ UNCHANGED << resultsBuffer, nextIndexToWrite, isFirst, written, retval >>
       ELSE \E e \in nextBuffered : \E ok \in WriteOutcomes :
              IF ok
                THEN /\ written' = Append(written, [id |-> e.id, data |-> e.data, first |-> isFirst])
                     /\ isFirst' = FALSE
                     /\ resultsBuffer' = resultsBuffer \ {e}
                     /\ nextIndexToWrite' = nextIndexToWrite + 1
                     /\ UNCHANGED << pcM, retval >>
                ELSE /\ retval' = "asmErr" /\ pcM' = "returned"
                     /\ UNCHANGED << resultsBuffer, nextIndexToWrite, isFirst, written >>
  /\ UNCHANGED << cfgVars, maskVars, cache, pcD, pcW, job, jobIndex, nread, dispatchErr,
                  readerFailed, jobsClosed, resultsClosed, jobsQ, resultsQ, wres, recvBy,
                  maskCount, arrived, startWritten, endWritten >>

\* a collector that returns the dispatch error as soon as it is set
CollectorFinishEarly ==
  /\ pcM = "recv" /\ (resultsClosed \/ dispatchErr # "nil")
  /\ IF dispatchErr # "nil"
       THEN /\ retval' = dispatchErr /\ UNCHANGED endWritten
       ELSE \E ok \in WriteOutcomes :
              IF ok THEN /\ endWritten' = endWritten + 1 /\ retval' = "nil"
              ELSE /\ retval' = "asmErr" /\ UNCHANGED endWritten
  /\ pcM' = "returned"
  /\ UNCHANGED << cfgVars, maskVars, cache, pcD, pcW, job, jobIndex, nread, dispatchErr,
                  readerFailed, jobsClosed, resultsClosed, jobsQ, resultsQ, wres, recvBy,
                  maskCount, resultsBuffer, arrived, nextIndexToWrite, isFirst, startWritten, written >>

\* collector: range results ends on the closed channel; dispatchErr is
\* returned if set, otherwise a.WriteEnd(w)
CollectorFinish ==
  /\ pcM = "recv" /\ resultsClosed
  /\ IF dispatchErr # "nil"
       THEN /\ retval' = dispatchErr /\ UNCHANGED endWritten
       ELSE \E ok \in WriteOutcomes :
              IF ok THEN /\ endWritten' = endWritten + 1 /\ retval' = "nil"
              ELSE /\ retval' = "asmErr" /\ UNCHANGED endWritten
  /\ pcM' = "returned"
  /\ UNCHANGED << cfgVars, maskVars, cache, pcD, pcW, job, jobIndex, nread, dispatchErr,
                  readerFailed, jobsClosed, resultsClosed, jobsQ, resultsQ, wres, recvBy,
                  maskCount, resultsBuffer, arrived, nextIndexToWrite, isFirst, startWritten, written >>

\* ------------------------------------------------- textProcessor.Process
\* Process: the channels are made with capacity cpuCount, the workers, the
\* line reader and the supervisor are launched
TextStart ==
  /\ format = "text" /\ pcM = "idle" /\ ConfigOk
  /\ pcM' = "textRecv" /\ pcD' = "read"
  /\ pcW' = [w \in Workers |-> IF w \in Active THEN "recv" ELSE "idle"]
  /\ UNCHANGED << cfgVars, maskVars, cache, job, jobIndex, nread, dispatchErr, readerFailed,
                  jobsClosed, resultsClosed, jobsQ, resultsQ, wres, recvBy, maskCount,
                  resultsBuffer, arrived, nextIndexToWrite, isFirst, startWritten, written, endWritten,
                  retval >>

\* line reader: scanner.Scan(); the loop ends at the end of the input, on a
\* scan error (scanner.Err() is not looked at) or when FirstN lines were sent
TextScan ==
  /\ format = "text" /\ pcD = "read"
  /\ IF stream.head = "ok" /\ nread < Len(stream.records)
       THEN IF firstN > 0 /\ nread >= firstN
              THEN /\ pcD' = "close" /\ UNCHANGED << job, readerFailed >>
              ELSE /\ job' = [index |-> -1, id |-> nread + 1, data |-> stream.records[nread + 1]]
                   /\ pcD' = "send" /\ UNCHANGED readerFailed
       ELSE /\ readerFailed' = (stream.head = "ioerr" \/ (stream.head = "ok" /\ stream.tail = "ioerr"))
            /\ pcD' = "close" /\ UNCHANGED job
  /\ UNCHANGED << cfgVars, maskVars, cache, pcM, pcW, jobIndex, nread, dispatchErr, jobsClosed,
                  resultsClosed, jobsQ, resultsQ, wres, recvBy, maskCount, resultsBuffer, arrived,
                  nextIndexToWrite, isFirst, startWritten, written, endWritten, retval >>

\* line reader: jobs <- scanner.Text(); lineCount++
TextSend ==
  /\ format = "text" /\ pcD = "send" /\ Len(jobsQ) < poolSize
  /\ jobsQ' = Append(jobsQ, job)
  /\ job' = NoJob /\ nread' = nread + 1 /\ pcD' = "read"
  /\ UNCHANGED << cfgVars, maskVars, cache, pcM, pcW, jobIndex, dispatchErr, readerFailed,
                  jobsClosed, resultsClosed, resultsQ, wres, recvBy, maskCount, resultsBuffer, arrived,
                  nextIndexToWrite, isFirst, startWritten, written, endWritten, retval >>

\* worker: line := <-jobs; maskedLine := masker.mask(line)
TextWorkerRecv(w) ==
  /\ format = "text" /\ pcW[w] = "recv" /\ jobsQ # << >>
  /\ \E sd \in Seeders : \E r \in mask(cache[w], sd, Head(jobsQ).data) :
       /\ cache' = [cache EXCEPT ![w] = r.cache]
       /\ wres' = [wres EXCEPT ![w] = [index |-> -1, id |-> Head(jobsQ).id, data |-> r.out]]
  /\ recvBy' = [recvBy EXCEPT ![Head(jobsQ).id] = @ \cup {w}]
  /\ maskCount' = [maskCount EXCEPT ![Head(jobsQ).id] = @ + 1]
  /\ jobsQ' = Tail(jobsQ)
  /\ pcW' = [pcW EXCEPT ![w] = "send"]
  /\ UNCHANGED << cfgVars, maskVars, pcM, pcD, job, jobIndex, nread, dispatchErr, readerFailed,
                  jobsClosed, resultsClosed, resultsQ, resultsBuffer, arrived, nextIndexToWrite, isFirst,
                  startWritten, written, endWritten, retval >>

\* worker: results <- maskedLine.(string)
TextWorkerSend(w) ==
  /\ format = "text" /\ pcW[w] = "send" /\ Len(resultsQ) < poolSize
  /\ resultsQ' = Append(resultsQ, wres[w])
  /\ wres' = [wres EXCEPT ![w] = NoJob]
  /\ pcW' = [pcW EXCEPT ![w] = "recv"]
  /\ UNCHANGED << cfgVars, maskVars, cache, pcM, pcD, job, jobIndex, nread, dispatchErr,
                  readerFailed, jobsClosed, resultsClosed, jobsQ, recvBy, maskCount,
                  resultsBuffer, arrived, nextIndexToWrite, isFirst, startWritten, written, endWritten,
                  retval >>

\* Process: one turn of range results: writer.WriteString(result + "\n");
\* a write error is returned
TextWrite ==
  /\ pcM = "textRecv" /\ resultsQ # << >>
  /\ resultsQ' = Tail(resultsQ)
  /\ \E ok \in WriteOutcomes :
       IF ok
         THEN /\ written' = Append(written, [id |-> Head(resultsQ).id, data |-> Head(resultsQ).data,
                                             first |-> written = << >>])
              /\ UNCHANGED << pcM, retval >>
         ELSE /\ retval' = "asmErr" /\ pcM' = "returned" /\ UNCHANGED written
  /\ UNCHANGED << cfgVars, maskVars, cache, pcD, pcW, job, jobIndex, nread, dispatchErr,
                  readerFailed, jobsClosed, resultsClosed, jobsQ, wres, recvBy, maskCount,
                  resultsBuffer, arrived, nextIndexToWrite, isFirst, startWritten, endWritten >>

\* a Process that returns as soon as no result waits, without waiting for
\* the results channel to be closed
TextReturnEarly ==
  /\ pcM = "textRecv" /\ resultsQ = << >>
  /\ retval' = "nil" /\ pcM' = "returned"
  /\ UNCHANGED << cfgVars, maskVars, cache, pcD, pcW, job, jobIndex, nread, dispatchErr,
                  readerFailed, jobsClosed, resultsClosed, jobsQ, resultsQ, wres, recvBy,
                  maskCount, resultsBuffer, arrived, nextIndexToWrite, isFirst, startWritten, written,
                  endWritten >>

\* Process: range results ends on the closed and drained channel; return nil
TextReturn ==
  /\ pcM = "textRecv" /\ resultsQ = << >> /\ resultsClosed
  /\ retval' = "nil" /\ pcM' = "returned"
  /\ UNCHANGED << cfgVars, maskVars, cache, pcD, pcW, job, jobIndex, nread, dispatchErr,
                  readerFailed, jobsClosed, resultsClosed, jobsQ, resultsQ, wres, recvBy,
                  maskCount, resultsBuffer, arrived, nextIndexToWrite, isFirst, startWritten, written,
                  endWritten >>

\* ---------------------------------------------------------- specification
Next ==
  \/ ProcessStart
  \/ ProcessSerial
  \/ DispatcherRead
  \/ \E w \in Workers : WorkerRecv(w)
  \/ DispatcherClose
  \/ \E w \in Workers : WorkerExit(w)
  \/ SupervisorClose
  \/ WriteStart
  \/ \E w \in Workers : CollectorRecv(w)
  \/ CollectorFlush
  \/ CollectorFinish
  \/ TextStart
  \/ TextScan
  \/ TextSend
  \/ \E w \in Workers : TextWorkerRecv(w)
  \/ \E w \in Workers : TextWorkerSend(w)
  \/ TextWrite
  \/ TextReturn

Spec == Init /\ [][Next]_vars

\* Run never looks into the data of a chunk: one content per record is
\* enough where the masked values are not what is checked.
SameRecords == \A i \in 1..Len(stream.records) : stream.records[i] = Str(StrTrue)

\* Run as the JSON processor starts it (the CSV and XML processors hand it
\* the same kind of chunk reader and assembler).
InitRun == Init /\ format = "json" /\ SameRecords

NextRun ==
  \/ ProcessStart
  \/ ProcessSerial
  \/ DispatcherRead
  \/ \E w \in Workers : WorkerRecv(w)
  \/ DispatcherClose
  \/ \E w \in Workers : WorkerExit(w)
  \/ SupervisorClose
  \/ WriteStart
  \/ \E w \in Workers : CollectorRecv(w)
  \/ CollectorFlush
  \/ CollectorFinish

SpecRun == InitRun /\ [][NextRun]_vars

\* Run on JSON input that ends properly, with a writer that does not fail,
\* under the scheduling the Go runtime gives: as long as some goroutine can
\* take a step, one is run.
InitRunFair == InitRun /\ stream.tail = "eof" /\ ~writerFails /\ firstN = 0

SpecRunFair == InitRunFair /\ [][NextRun]_vars /\ WF_vars(NextRun)

\* Every format, on well-formed input with a writer that does not fail.
InitWellFormed == Init /\ stream.head = "ok" /\ stream.tail = "eof" /\ ~writerFails /\ SameRecords

SpecWellFormed == InitWellFormed /\ [][Next]_vars

\* ------------------------------------------------------------ properties
Min(a, b) == IF a < b THEN a ELSE b

\* Process hands the stream to concurrentRunner.Run
UsesRun == format \in {"json", "xml", "csv"} /\ stream.head = "ok" /\ stream.list

\* the number of chunks the chunk reader returns before io.EOF or an error
ChunksBeforeEnd == IF firstN > 0 THEN Min(firstN, Len(stream.records)) ELSE Len(stream.records)

InInputOrder == \A k \in 1..Len(written) : written[k].id = k

Returned == pcM = "returned"

\* C1: with at least one worker, the k-th item Run passes to WriteItem is the
\* result of the k-th chunk the chunk reader returned, whatever the order in
\* which the workers finish.
C1_RunWritesInReadOrder == (UsesRun /\ cpuCount >= 1) => InInputOrder

\* two results reached the collector in the reverse of the read order and
\* both were written
C1_Witness ==
  UsesRun /\ cpuCount >= 2 /\ arrived = << 2, 1 >> /\ Len(written) = 2 /\ retval = "nil"

\* C2: text format, more than one worker: the i-th line written is the
\* masked i-th input line.
C2_TextLinesInInputOrder == (format = "text" /\ poolSize > 1) => InInputOrder

TimesWritten(id) == Cardinality({k \in 1..Len(written) : written[k].id = id})

AllTerminated ==
  /\ Returned /\ pcD = "done" /\ jobsClosed /\ resultsClosed
  /\ \A w \in Active : pcW[w] = "done"

\* C4: with at least one worker, a chunk sequence that ends in io.EOF and an
\* assembler that does not fail, Run eventually returns and the dispatcher,
\* every worker and the supervisor have terminated.
C4_RunTerminates ==
  (UsesRun /\ cpuCount >= 1 /\ stream.tail = "eof" /\ ~writerFails) => <>(AllTerminated /\ retval = "nil")

\* everything terminated after two workers processed chunks
C4_Witness ==
  /\ UsesRun /\ cpuCount = 2 /\ stream.tail = "eof" /\ AllTerminated /\ retval = "nil"
  /\ Len(written) = 2 /\ recvBy[1] # recvBy[2]

\* C5: with at least one worker, when the chunk reader returns a non-EOF
\* error after k chunks, nothing more is read, and when Run returns (the
\* assembler not failing) all k chunks were passed to WriteItem in input order
\* and the return value is that error.
C5_ReadErrorAfterDrain ==
  (UsesRun /\ cpuCount >= 1 /\ dispatchErr # "nil") =>
    /\ pcD \in {"close", "done"} /\ nread = Len(stream.records)
    /\ (Returned /\ retval # "asmErr") =>
         /\ retval = dispatchErr /\ retval = (IF stream.tail = "ioerr" THEN "readErr" ELSE "syntaxErr")
         /\ Len(written) = Len(stream.records) /\ InInputOrder
         /\ \A id \in 1..Len(stream.records) : maskCount[id] = 1

\* Run returned the reader's error after writing two chunks that arrived out
\* of order
C5_Witness ==
  /\ UsesRun /\ cpuCount >= 1 /\ Returned /\ retval = "readErr" /\ Len(written) = 2
  /\ arrived = << 2, 1 >>

\* C6: when Run returns a malformed-input error, the closing framing of
\* WriteEnd was written after the opening framing of WriteStart.
C6_FramingClosedOnError ==
  (UsesRun /\ cpuCount >= 1 /\ Returned /\ retval = "syntaxErr" /\ startWritten = 1)
    => endWritten = 1

\* C7: in every format, once a read of the underlying reader has failed,
\* Process does not return nil.
C7_ReaderFailureReturned == (poolSize >= 1 /\ readerFailed /\ Returned) => retval # "nil"

\* the number of records Process is to write
RecordsExpected == IF UsesRun \/ format = "text" THEN ChunksBeforeEnd ELSE Len(stream.records)

MaxPatterns == 2

\* glob.Glob.Match for a pattern compiled with separator '.': a literal
\* character matches itself, '*' any run of characters other than '.', '**'
\* any run of characters
RECURSIVE GlobMatch(_, _)
GlobMatch(p, s) ==
  IF Len(p) = 0 THEN Len(s) = 0
  ELSE IF Len(p) >= 2 /\ p[1] = "*" /\ p[2] = "*"
    THEN \E k \in 0..Len(s) : GlobMatch(SubSeq(p, 3, Len(p)), SubSeq(s, k + 1, Len(s)))
  ELSE IF p[1] = "*"
    THEN \E k \in 0..Len(s) :
           /\ \A j \in 1..k : s[j] # "."
           /\ GlobMatch(Tail(p), SubSeq(s, k + 1, Len(s)))
  ELSE Len(s) > 0 /\ s[1] = p[1] /\ GlobMatch(Tail(p), Tail(s))

\* for _, g := range gs { if g.Match(key) { return ... } }: the loop, from
\* the i-th glob on, reaches its return
RECURSIVE MatchesFrom(_, _, _)
MatchesFrom(gs, key, i) ==
  IF i > Len(gs) THEN FALSE
  ELSE IF GlobMatch(gs[i], key) THEN TRUE
  ELSE MatchesFrom(gs, key, i + 1)

\* a filter that looks at the include patterns before the exclude patterns
shouldMaskIncludeFirst(key, inc, exc) ==
  IF Len(inc) > 0 /\ MatchesFrom(inc, key, 1) THEN TRUE
  ELSE IF Len(exc) > 0 /\ MatchesFrom(exc, key, 1) THEN FALSE
  ELSE Len(inc) = 0

\* shouldMask(key, include, exclude)
shouldMask(key, inc, exc) ==
  IF Len(exc) > 0 /\ MatchesFrom(exc, key, 1) THEN FALSE
  ELSE IF Len(inc) > 0 THEN MatchesFrom(inc, key, 1)
  ELSE TRUE

FilterKeys ==
  { << >>, << "a" >>, << "b" >>, << "a", ".", "b" >>, << "b", ".", "a" >> }

FilterPatterns ==
  { << "a" >>, << "b" >>, << "*" >>, << "a", ".", "*" >>, << "*", "*" >> }

\* shouldMask called directly with compiled include and exclude patterns
InitFilter ==
  /\ format = "filter" /\ det = TRUE /\ cpuCount = 1 /\ firstN = 0 /\ stream = EmptyStream
  /\ writerFails = FALSE
  /\ include \in SeqUpTo(FilterPatterns, MaxPatterns)
  /\ exclude \in SeqUpTo(FilterPatterns, MaxPatterns)
  /\ children = << >>
  /\ IdleRun
  /\ cache = [m \in Maskers |-> {}]
  /\ ncalls = 0 /\ lastIn = Nil /\ lastOut = Nil /\ lastKey = << >> /\ lastAsked = << >>

ShouldMaskCall ==
  /\ format = "filter" /\ ncalls < MaxCalls
  /\ \E key \in FilterKeys :
       /\ lastKey' = key
       /\ lastOut' = Bool(shouldMask(key, include, exclude))
  /\ ncalls' = ncalls + 1
  /\ UNCHANGED << cfgVars, runVars, cache, lastIn, lastAsked >>

NextFilter == ShouldMaskCall

SpecFilter == InitFilter /\ [][NextFilter]_vars

Included(key) == \E i \in 1..Len(include) : GlobMatch(include[i], key)

Excluded(key) == \E i \in 1..Len(exclude) : GlobMatch(exclude[i], key)

\* C12: shouldMask is false when some exclude pattern matches the key;
\* otherwise, with include patterns, true exactly when one of them matches;
\* otherwise true.
C12_ShouldMask ==
  (format = "filter" /\ ncalls > 0) =>
    lastOut = Bool(IF Excluded(lastKey) THEN FALSE
                   ELSE IF Len(include) > 0 THEN Included(lastKey)
                   ELSE TRUE)

\* a key matched by an include and by an exclude pattern was not selected
C12_Witness ==
  /\ format = "filter" /\ ncalls > 0 /\ Included(lastKey) /\ Excluded(lastKey)
  /\ lastOut = Bool(FALSE)

\* ------------------------------------------------- determinism of Run
\* C11: in deterministic mode the masked value Run writes for a chunk is a
\* function of the chunk's content alone: it is what a fresh masker with the
\* configured salt returns for it, whichever worker masked it and whatever
\* that worker masked before.
C11_OutputDependsOnChunkOnly ==
  (UsesRun /\ det /\ cpuCount >= 1) =>
    \A k \in 1..Len(written) :
      written[k].data = maskUncached(Seeder(TRUE, Salt, 0), stream.records[written[k].id])

\* -------------------------------------------------- recursiveMask on trees
MaxDepth == 2

\* map[string]any and []any: kids holds the entries of a map (key k, value
\* v) or the elements of a slice (k empty)
Entry(k, v) == [k |-> k, v |-> v]
Map(kids) == [t |-> "map", s |-> << >>, b |-> FALSE, kids |-> kids]
Arr(items) == [t |-> "array", s |-> << >>, b |-> FALSE, kids |-> [i \in 1..Len(items) |-> Entry(<< >>, items[i])]]

IsContainer(v) == v.t \in {"map", "array"}

KeyText == << "#", "t", "e", "x", "t" >>

\* strings.TrimPrefix(k, "-")
TrimPrefix(k) == IF Len(k) > 0 /\ k[1] = "-" THEN Tail(k) ELSE k

\* concurrentRunner.recursiveMask(m, key, data) with the runner's include
\* and exclude patterns inc and exc: the possible results, each with the
\* cache afterwards and the keys handed to shouldMask on the way (asked).
\* The entries of a map are visited in any order (Go's map iteration), the
\* elements of a slice in index order.
RECURSIVE recursiveMaskKey(_, _, _, _, _, _)
RECURSIVE maskKids(_, _, _, _, _, _, _)
maskKids(c, sd, inc, exc, key, data, todo) ==
  IF todo = {} THEN {[outs |-> << >>, cache |-> c, asked |-> << >>]}
  ELSE LET first == IF data.t = "map" THEN todo ELSE {CHOOSE i \in todo : \A j \in todo : i <= j}
           visit(i, cc) ==
             LET k == data.kids[i].k
                 value == data.kids[i].v
             IN IF data.t = "array" THEN recursiveMaskKey(cc, sd, inc, exc, key, value)
                ELSE IF k = KeyText
                  THEN IF shouldMask(key, inc, exc)
                         THEN {[out |-> r.out, cache |-> r.cache, asked |-> << key >>] :
                                 r \in mask(cc, sd, value)}
                         ELSE {[out |-> value, cache |-> cc, asked |-> << key >>]}
                ELSE LET nestedKey == TrimPrefix(k)
                         fullKey == IF key # << >> THEN key \o << "." >> \o nestedKey ELSE nestedKey
                     IN recursiveMaskKey(cc, sd, inc, exc, fullKey, value)
       IN UNION {UNION {{[outs |-> (i :> r1.out) @@ r2.outs, cache |-> r2.cache,
                          asked |-> r1.asked \o r2.asked] :
                           r2 \in maskKids(r1.cache, sd, inc, exc, key, data, todo \ {i})} :
                        r1 \in visit(i, c)} :
                 i \in first}

recursiveMaskKey(c, sd, inc, exc, key, data) ==
  IF IsContainer(data)
    THEN {[out |-> [data EXCEPT !.kids = [i \in 1..Len(data.kids) |-> Entry(data.kids[i].k, r.outs[i])]],
           cache |-> r.cache, asked |-> r.asked] :
            r \in maskKids(c, sd, inc, exc, key, data, 1..Len(data.kids))}
  ELSE IF shouldMask(key, inc, exc)
    THEN {[out |-> r.out, cache |-> r.cache, asked |-> << key >>] : r \in mask(c, sd, data)}
  ELSE {[out |-> data, cache |-> c, asked |-> << key >>]}

TreeKeys == { << "a" >>, << "-", "a" >>, KeyText, << >> }

TreeLeaves == { Str(StrTrue), Nil }

RECURSIVE Trees(_)
Trees(d) ==
  IF d = 0 THEN TreeLeaves
  ELSE LET sub == Trees(d - 1)
       IN sub
          \cup {Map(<< Entry(k, v) >>) : k \in TreeKeys, v \in sub}
          \cup {Arr(<< v >>) : v \in sub}
          \cup {Map(<< Entry(<< "a" >>, v), Entry(<< "-", "a" >>, Str(StrTrue)) >>) : v \in TreeLeaves}
          \cup {Arr(<< v, Str(StrTrue) >>) : v \in TreeLeaves}

TreeRoots == { << >>, << "r" >> }

TreePatterns == { << >>, << << "a" >> >>, << << "r", ".", "a" >> >> }

\* recursiveMask called directly on a decoded chunk with a fresh masker
InitTree ==
  /\ format = "tree" /\ det \in BOOLEAN /\ cpuCount = 1 /\ firstN = 0 /\ stream = EmptyStream
  /\ writerFails = FALSE
  /\ include \in TreePatterns /\ exclude \in TreePatterns
  /\ children = << >>
  /\ IdleRun
  /\ cache = [m \in Maskers |-> {}]
  /\ ncalls = 0 /\ lastIn = Nil /\ lastOut = Nil /\ lastKey = << >> /\ lastAsked = << >>

RecursiveMaskCall ==
  /\ format = "tree" /\ ncalls < 1
  /\ \E key \in TreeRoots : \E data \in Trees(MaxDepth) : \E sd \in Seeders :
     \E r \in recursiveMaskKey(cache[0], sd, include, exclude, key, data) :
       /\ lastKey' = key /\ lastIn' = data /\ lastOut' = r.out /\ lastAsked' = r.asked
       /\ cache' = [cache EXCEPT ![0] = r.cache]
  /\ ncalls' = ncalls + 1
  /\ UNCHANGED << cfgVars, runVars >>

NextTree == RecursiveMaskCall

SpecTree == InitTree /\ [][NextTree]_vars

\* the key paths of the scalars of data, as sequences of segments: a map key
\* appends one segment (an attribute key without its "-"), a "#text" entry
\* and a slice element append nothing
RECURSIVE PathsOf(_, _)
PathsOf(segs, data) ==
  IF ~IsContainer(data) THEN {segs}
  ELSE UNION {LET k == data.kids[i].k
              IN IF data.t = "array" \/ k = KeyText THEN PathsOf(segs, data.kids[i].v)
                 ELSE PathsOf(Append(segs, TrimPrefix(k)), data.kids[i].v) :
              i \in 1..Len(data.kids)}

RECURSIVE NumScalars(_)
RECURSIVE SumScalars(_, _)
SumScalars(kids, i) == IF i > Len(kids) THEN 0 ELSE NumScalars(kids[i].v) + SumScalars(kids, i + 1)
NumScalars(data) == IF ~IsContainer(data) THEN 1 ELSE SumScalars(data.kids, 1)

RootSegs(key) == IF key = << >> THEN << >> ELSE << key >>

\* C13: the keys recursiveMask hands to the field filter are, one per
\* scalar, the dot-joined key paths from the root to the scalars: a map key
\* appends a segment, a slice element appends nothing, an attribute key
\* loses its "-", and a "#text" entry is filtered under its parent's path.
C13_PathsPassedToFilter ==
  (format = "tree" /\ ncalls > 0) =>
    /\ {lastAsked[i] : i \in 1..Len(lastAsked)} =
         {Join(p, ".") : p \in PathsOf(RootSegs(lastKey), lastIn)}
    /\ Len(lastAsked) = NumScalars(lastIn)

\* out has the nesting, keys and lengths of data, and a scalar of data whose
\* path the filter rejects is the same in out
RECURSIVE SameFrame(_, _, _)
SameFrame(segs, data, out) ==
  IF ~IsContainer(data)
    THEN /\ ~IsContainer(out)
         /\ ~shouldMask(Join(segs, "."), include, exclude) => out = data
  ELSE /\ out.t = data.t
       /\ Len(out.kids) = Len(data.kids)
       /\ \A i \in 1..Len(data.kids) :
            LET k == data.kids[i].k
            IN /\ out.kids[i].k = k
               /\ SameFrame(IF data.t = "array" \/ k = KeyText THEN segs
                            ELSE Append(segs, TrimPrefix(k)),
                            data.kids[i].v, out.kids[i].v)

\* C14: recursiveMask changes only scalars the filter selects: the result
\* has the nesting, the key set of every map and the length of every slice
\* of its input, and a scalar the filter rejects is returned unchanged.
C14_OnlySelectedScalarsChange ==
  (format = "tree" /\ ncalls > 0) => SameFrame(RootSegs(lastKey), lastIn, lastOut)

\* ------------------------------------------------ the assembler under Run
\* the assembler calls made so far are in the order WriteStart, WriteItem*,
\* WriteEnd, and isFirst was set for the first WriteItem alone
AssemblerOrder ==
  /\ startWritten <= 1 /\ endWritten <= 1
  /\ (pcM \in {"recv", "flush"}) => startWritten = 1
  /\ (written # << >> \/ endWritten = 1) => startWritten = 1
  /\ endWritten = 1 => Returned
  /\ (Returned /\ retval = "nil") => (startWritten = 1 /\ endWritten = 1)
  /\ \A k \in 1..Len(written) : written[k].first <=> (k = 1)

\* one step makes at most one assembler call, the collector makes it, and
\* nothing is written once WriteEnd was called
AssemblerStep ==
  /\ startWritten' # startWritten =>
       (pcM = "writeStart" /\ written = << >> /\ UNCHANGED << written, endWritten >>)
  /\ written' # written =>
       (pcM = "flush" /\ endWritten = 0 /\ Len(written') = Len(written) + 1
         /\ UNCHANGED << startWritten, endWritten >>)
  /\ endWritten' # endWritten =>
       (pcM = "recv" /\ pcM' = "returned" /\ UNCHANGED << startWritten, written >>)
  /\ Returned => UNCHANGED << startWritten, written, endWritten >>

InFlight == nread - Len(arrived)

\* workers holding a masked chunk they have not yet sent
Holding == {w \in Active : pcW[w] = "send"}

\* C16: in Run the chunks read but not yet received by the collector are the
\* one the dispatcher is sending, if any, and one per worker that holds a
\* result: never more than cpuCount + 1.
C16_InFlightBound ==
  UsesRun =>
    /\ InFlight = (IF pcD = "send" THEN 1 ELSE 0) + Cardinality(Holding)
    /\ InFlight <= cpuCount + 1

\* one worker holds the first chunk while the dispatcher offers the second
C16_Witness ==
  UsesRun /\ cpuCount = 1 /\ nread = 2 /\ arrived = << >> /\ pcD = "send" /\ pcW[1] = "send"

\* ------------------------------------------------- one masker per worker
\* the chunks worker w received
ReceivedBy(w) == {id \in 1..MaxChunks : w \in recvBy[id]}

\* C17: every worker of Run and of the text processor masks with the masker
\* it created itself: what a masker's cache holds was put there by its own
\* worker, from a chunk that worker received, and the masker of the serial
\* path is not touched by any worker.
C17_MaskerPerWorker ==
  (UsesRun \/ format = "text") =>
    /\ cache[0] = {}
    /\ \A m \in Workers : \A e \in cache[m] :
         /\ m \in Active
         /\ \E id \in ReceivedBy(m) :
              id <= Len(stream.records) /\ e.k = getCacheKey(stream.records[id])

\* two workers of Run each masked one chunk and each cached its result
C17_Witness ==
  /\ UsesRun /\ det /\ recvBy[1] = {1} /\ recvBy[2] = {2}
  /\ cache[1] # {} /\ cache[2] # {}

\* ------------------------------------------------------ Start's rejections
StartFormats == Formats \cup {"yaml"}

\* no pattern, or patterns of which one does not compile
StartPatternLists == { << >>, << << "[" >> >>, << << "a" >>, << "[", "a" >> >> }

\* Start on a well-formed stream with any of these configurations
InitStart ==
  /\ format \in StartFormats /\ det \in BOOLEAN /\ cpuCount \in 0..MaxWorkers
  /\ firstN \in 0..MaxFirstN
  /\ stream \in Streams(IF format \in Formats THEN format ELSE "json")
  /\ stream.head = "ok" /\ stream.tail = "eof" /\ SameRecords
  /\ writerFails = FALSE
  /\ include \in StartPatternLists /\ exclude \in StartPatternLists
  /\ children = IF format = "xml" THEN ListOf(Len(stream.records)) ELSE << >>
  /\ IdleRun
  /\ cache = [m \in Maskers |-> {}]
  /\ ncalls = 0 /\ lastIn = Nil /\ lastOut = Nil /\ lastKey = << >> /\ lastAsked = << >>

NextStart == StartReject \/ Next

SpecStart == InitStart /\ [][NextStart]_vars

\* a pattern that does not compile, or a format Start does not know
BadConfig == ~AllCompile(include) \/ ~AllCompile(exclude) \/ format \notin Formats

\* nothing was read from the reader and nothing written to the writer
NoIO ==
  /\ nread = 0 /\ ~readerFailed /\ pcD = "idle" /\ \A w \in Workers : pcW[w] = "idle"
  /\ startWritten = 0 /\ written = << >> /\ endWritten = 0

\* C18: with an include or exclude pattern that does not compile, or a
\* format other than json, xml, csv and text, Start returns a configuration
\* error, and it has not read from the reader or written to the writer.
C18_StartRejectsBadConfig ==
  BadConfig =>
    /\ pcM \in {"idle", "returned"}
    /\ pcM = "idle" => ENABLED StartReject
    /\ Returned => retval = "configErr"
    /\ NoIO

\* Start returned the error for an exclude pattern that does not compile,
\* in a format it knows
C18_Witness ==
  /\ format = "json" /\ include = << >> /\ ~AllCompile(exclude)
  /\ Returned /\ retval = "configErr" /\ NoIO

\* ------------------------------------------------------------ XML documents
RootTag == << "r" >>

\* a token of xml.Decoder.Token: StartElement or EndElement, its Name.Local,
\* the child of the root it belongs to (0: the root itself) and whether it
\* is that child's own tag
Tok(kind, name, child, top) == [kind |-> kind, name |-> name, child |-> child, top |-> top]

ChildTokens(c, i) ==
  << Tok("start", c.tag, i, TRUE) >>
  \o (IF c.nested THEN << Tok("start", ItemTag, i, FALSE), Tok("end", ItemTag, i, FALSE) >> ELSE << >>)
  \o << Tok("end", c.tag, i, TRUE) >>

RECURSIVE ChildrenTokens(_, _)
ChildrenTokens(cs, i) == IF i > Len(cs) THEN << >> ELSE ChildTokens(cs[i], i) \o ChildrenTokens(cs, i + 1)

\* the token stream of the well-formed document <r> children </r>
Tokens(cs) == << Tok("start", RootTag, 0, TRUE) >> \o ChildrenTokens(cs, 1) \o << Tok("end", RootTag, 0, TRUE) >>

\* a detection that takes every element after the root for a child of the
\* root, whatever its depth
RECURSIVE DetectFlat(_, _, _)
DetectFlat(toks, i, first) ==
  IF i > Len(toks) THEN [ok |-> FALSE, firstChild |-> first]
  ELSE IF toks[i].kind = "start" /\ i > 1
    THEN IF first = << >> THEN DetectFlat(toks, i + 1, toks[i].name)
         ELSE [ok |-> first = toks[i].name, firstChild |-> first]
  ELSE DetectFlat(toks, i + 1, first)

detectXMLListPatternFlat(toks) == DetectFlat(toks, 1, << >>)

\* the token loop of detectXMLListPattern: the end of the tokens is the
\* decoder's error
RECURSIVE Detect(_, _, _, _)
Detect(toks, i, depth, first) ==
  IF i > Len(toks) THEN [ok |-> FALSE, firstChild |-> first]
  ELSE IF toks[i].kind = "start"
    THEN IF depth + 1 = 2
           THEN IF first = << >> THEN Detect(toks, i + 1, depth + 1, toks[i].name)
                ELSE [ok |-> first = toks[i].name, firstChild |-> first]
         ELSE Detect(toks, i + 1, depth + 1, first)
  ELSE IF toks[i].kind = "end"
    THEN IF depth - 1 < 1 THEN [ok |-> FALSE, firstChild |-> first]
         ELSE Detect(toks, i + 1, depth - 1, first)
  ELSE Detect(toks, i + 1, depth, first)

detectXMLListPattern(toks) == Detect(toks, 1, 0, << >>)

\* decodeElementToMap: the index after the end tag that closes the element
\* whose start tag was just read
RECURSIVE AfterElement(_, _, _)
AfterElement(toks, i, d) ==
  IF d = 0 \/ i > Len(toks) THEN i
  ELSE AfterElement(toks, i + 1, CASE toks[i].kind = "start" -> d + 1
                                     [] toks[i].kind = "end" -> d - 1
                                     [] OTHER -> d)

\* the chunks the closure of createXMLChunkReader returns up to io.EOF, each
\* named by the child of the root it was decoded from, whether it is that
\* child itself, and the tokens decodeElementToMap went through (from..to)
RECURSIVE ReadChunks(_, _, _, _)
ReadChunks(toks, i, started, item) ==
  IF i > Len(toks) THEN << >>
  ELSE IF toks[i].kind = "start"
    THEN IF ~started /\ toks[i].name = RootTag THEN ReadChunks(toks, i + 1, TRUE, item)
         ELSE IF toks[i].name = item
           THEN << [child |-> toks[i].child, whole |-> toks[i].top,
                     from |-> i, to |-> AfterElement(toks, i + 1, 1) - 1] >>
                \o ReadChunks(toks, AfterElement(toks, i + 1, 1), started, item)
         ELSE ReadChunks(toks, i + 1, started, item)
  ELSE IF toks[i].kind = "end" /\ toks[i].name = RootTag THEN << >>
  ELSE ReadChunks(toks, i + 1, started, item)

XMLChunks(cs) == ReadChunks(Tokens(cs), 1, FALSE, detectXMLListPattern(Tokens(cs)).firstChild)

XMLTags == { ItemTag, << "b" >> }

XMLChildLists == SeqUpTo({Child(t, n) : t \in XMLTags, n \in BOOLEAN}, MaxChunks + 1)

\* what Run (list) or processSerially (no list) goes through, one record
\* per chunk or per child of the root
XMLRecords(cs) ==
  IF detectXMLListPattern(Tokens(cs)).ok THEN [k \in 1..Len(XMLChunks(cs)) |-> Str(StrTrue)]
  ELSE [k \in 1..Len(cs) |-> Str(StrTrue)]

\* xmlProcessor.Process on a well-formed document, one worker
InitXML ==
  /\ format = "xml" /\ det = TRUE /\ cpuCount = 1 /\ firstN = 0 /\ writerFails = FALSE
  /\ include = << >> /\ exclude = << >>
  /\ children \in XMLChildLists
  /\ Len(XMLRecords(children)) <= MaxChunks
  /\ stream = [head |-> "ok", list |-> detectXMLListPattern(Tokens(children)).ok,
               records |-> XMLRecords(children), tail |-> "eof"]
  /\ IdleRun
  /\ cache = [m \in Maskers |-> {}]
  /\ ncalls = 0 /\ lastIn = Nil /\ lastOut = Nil /\ lastKey = << >> /\ lastAsked = << >>

SpecXML == InitXML /\ [][NextRun]_vars

\* the root has at least two child elements and the first two share a tag
FirstTwoAlike == Len(children) >= 2 /\ children[1].tag = children[2].tag

\* Run was started: the dispatcher exists
OnConcurrentPath == pcD # "idle"

\* C19: xmlProcessor.Process takes the concurrent chunked path exactly when
\* the root has at least two child elements and the first two have the same
\* tag name; otherwise it takes the serial path, which returns nil for
\* well-formed input.
C19_XMLPathChoice ==
  (format = "xml" /\ stream.head = "ok" /\ stream.tail = "eof" /\ pcM # "idle") =>
    /\ OnConcurrentPath <=> FirstTwoAlike
    /\ ~FirstTwoAlike => (pcM \in {"serial", "returned"} /\ startWritten = 0)
    /\ (~FirstTwoAlike /\ Returned) => (retval = "nil" /\ Len(written) = Len(children))

\* the serial path ended without error for a root whose first child holds a
\* nested <a> and whose second child is a <b>
C19_Witness ==
  /\ format = "xml" /\ Len(children) = 2
  /\ children[1] = Child(ItemTag, TRUE) /\ children[2].tag # ItemTag
  /\ ~OnConcurrentPath /\ Returned /\ retval = "nil"

\* the child of the root that the k-th written item holds
Emitted(k) ==
  IF stream.list THEN XMLChunks(children)[written[k].id]
  ELSE [child |-> written[k].id, whole |-> TRUE, from |-> 0, to |-> 0]

\* C20: for a well-formed document whose first two children share a tag
\* and a later child has another tag, every child element of the root,
\* the differently named one included, is in the output.
C20_NoChildDropped ==
  (format = "xml" /\ FirstTwoAlike /\ Returned /\ retval = "nil") =>
    \A i \in 1..Len(children) :
      \E k \in 1..Len(written) : Emitted(k).child = i /\ Emitted(k).whole

\* ------------------------------------- XML comments and processing instructions
\* a Comment or ProcInst token of the decoder, in child i of the root (0: at
\* the root's own level)
MiscKinds == { "comment", "procinst" }

\* where one such token sits: directly in the root after its child at (0:
\* before the first child), or inside child at, after its start tag
MiscPlaces(cs) == [kind : MiscKinds, at : 0..Len(cs), inside : BOOLEAN]

DocChildTokens(c, i, m) ==
  IF m.inside /\ m.at = i
    THEN << Tok("start", c.tag, i, TRUE), Tok(m.kind, << >>, i, FALSE) >> \o Tail(ChildTokens(c, i))
  ELSE IF m.at = i THEN ChildTokens(c, i) \o << Tok(m.kind, << >>, 0, TRUE) >>
  ELSE ChildTokens(c, i)

RECURSIVE DocChildrenTokens(_, _, _)
DocChildrenTokens(cs, i, m) ==
  IF i > Len(cs) THEN << >> ELSE DocChildTokens(cs[i], i, m) \o DocChildrenTokens(cs, i + 1, m)

\* the tokens of the well-formed document <r> children </r> holding the
\* comment or processing instruction m
DocTokens(cs, m) ==
  << Tok("start", RootTag, 0, TRUE) >>
  \o (IF m.at = 0 THEN << Tok(m.kind, << >>, 0, TRUE) >> ELSE << >>)
  \o DocChildrenTokens(cs, 1, m)
  \o << Tok("end", RootTag, 0, TRUE) >>

\* processSerially: every token read is encoded (the masking of character
\* data and attribute values does not change the kind of a token)
SerialTokens(toks) == [i \in 1..Len(toks) |-> toks[i]]

\* what decodeElementToMap keeps of the tokens it reads and mapToXML writes
\* again: the element tags (attributes and text are part of them here)
KeptInMap(toks) == SelectSeq(toks, LAMBDA t : t.kind \in {"start", "end"})

RECURSIVE ItemsTokens(_, _, _)
ItemsTokens(toks, chunks, k) ==
  IF k > Len(chunks) THEN << >>
  ELSE KeptInMap(SubSeq(toks, chunks[k].from, chunks[k].to)) \o ItemsTokens(toks, chunks, k + 1)

\* Run with the xmlAssembler: xml.Header and the root's start tag, the items
\* in read order, the root's end tag
ChunkedTokens(toks) ==
  << Tok("procinst", << "x", "m", "l" >>, 0, TRUE), Tok("start", RootTag, 0, TRUE) >>
  \o ItemsTokens(toks, ReadChunks(toks, 1, FALSE, detectXMLListPattern(toks).firstChild), 1)
  \o << Tok("end", RootTag, 0, TRUE) >>

\* xmlProcessor.Process on the tokens of a document, all workers done
XMLProcessTokens(toks) ==
  IF detectXMLListPattern(toks).ok THEN ChunkedTokens(toks) ELSE SerialTokens(toks)

InitXMLDoc ==
  /\ format = "xmldoc" /\ det = TRUE /\ cpuCount = 1 /\ firstN = 0 /\ stream = EmptyStream
  /\ writerFails = FALSE /\ include = << >> /\ exclude = << >> /\ children = << >>
  /\ IdleRun
  /\ cache = [m \in Maskers |-> {}]
  /\ ncalls = 0 /\ lastIn = << >> /\ lastOut = << >> /\ lastKey = << >> /\ lastAsked = << >>

\* Process called on one document
XMLProcessCall ==
  /\ format = "xmldoc" /\ ncalls < 1
  /\ \E cs \in XMLChildLists : \E m \in MiscPlaces(cs) :
       /\ lastIn' = DocTokens(cs, m)
       /\ lastOut' = XMLProcessTokens(DocTokens(cs, m))
  /\ ncalls' = ncalls + 1
  /\ UNCHANGED << cfgVars, runVars, cache, lastKey, lastAsked >>

SpecXMLDoc == InitXMLDoc /\ [][XMLProcessCall]_vars

MiscOf(toks) == SelectSeq(toks, LAMBDA t : t.kind \in MiscKinds)

\* s is a subsequence of the tokens t from position j on
RECURSIVE SubsequenceFrom(_, _, _)
SubsequenceFrom(sq, t, j) ==
  IF sq = << >> THEN TRUE
  ELSE IF j > Len(t) THEN FALSE
  ELSE IF t[j] = Head(sq) THEN SubsequenceFrom(Tail(sq), t, j + 1)
  ELSE SubsequenceFrom(sq, t, j + 1)

\* C21: every comment and processing instruction of an XML input is in the
\* output, on the serial path and on the chunked path, inside list items
\* too.
C21_CommentsPassThrough ==
  (format = "xmldoc" /\ ncalls > 0) => SubsequenceFrom(MiscOf(lastIn), lastOut, 1)

\* ------------------------------------------- numeric strings and numbers
MaxStrLen == 4

\* strings of digits, sign, point, blank
NumStrChars == { "-", ".", " ", "0", "5" }

\* literals of JSON numbers
JSONNumChars == { "-", ".", "0", "5", "e" }

\* s is a number of the JSON grammar, as json.Decoder with UseNumber hands
\* it over in a json.Number: -? int (. digits)? (e -? digits)?
IsJSONNumber(s) ==
  LET m == StripSign(s)
      e == IndexOf(m, "e")
      mant == IF e = 0 THEN m ELSE SubSeq(m, 1, e - 1)
      expo == IF e = 0 THEN << >> ELSE SubSeq(m, e + 1, Len(m))
      p == IndexOf(mant, ".")
      ip == IF p = 0 THEN mant ELSE SubSeq(mant, 1, p - 1)
      fp == IF p = 0 THEN << >> ELSE SubSeq(mant, p + 1, Len(mant))
  IN /\ AllDigits(ip) /\ (Len(ip) > 1 => ip[1] # "0")
     /\ p # 0 => AllDigits(fp)
     /\ e # 0 => AllDigits(StripSign(expo))

NumericInputs ==
  {Str(s) : s \in SeqUpTo(NumStrChars, MaxStrLen)}
  \cup {Num(s) : s \in {x \in SeqUpTo(JSONNumChars, MaxStrLen) : IsJSONNumber(x)}}

\* a masker built by newMasker, called once on a string or a json.Number
InitNumeric ==
  /\ format = "numeric" /\ det \in BOOLEAN /\ cpuCount = 1 /\ firstN = 0 /\ stream = EmptyStream
  /\ writerFails = FALSE /\ include = << >> /\ exclude = << >> /\ children = << >>
  /\ IdleRun
  /\ cache = [m \in Maskers |-> {}]
  /\ ncalls = 0 /\ lastIn = Nil /\ lastOut = Nil /\ lastKey = << >> /\ lastAsked = << >>

NumericCall ==
  /\ format = "numeric" /\ ncalls < 1
  /\ \E v \in NumericInputs : \E sd \in Seeders : \E r \in mask(cache[0], sd, v) :
       /\ lastIn' = v /\ lastOut' = r.out
       /\ cache' = [cache EXCEPT ![0] = r.cache]
  /\ ncalls' = ncalls + 1
  /\ UNCHANGED << cfgVars, runVars, lastKey, lastAsked >>

SpecNumeric == InitNumeric /\ [][NumericCall]_vars

\* the last call masked a string that ParseInt or ParseFloat accepts
MaskedNumericString ==
  /\ format = "numeric" /\ ncalls > 0 /\ lastIn.t = "string" /\ ~IsBlank(lastIn.s)
  /\ ParseInt(lastIn.s) \/ ParseFloat(lastIn.s)

\* C22: the masked form of an integer or decimal string has the length of
\* the input and a decimal point wherever the input has one.
C22_NumericStringShape ==
  MaskedNumericString =>
    /\ lastOut.t = "string"
    /\ Len(lastOut.s) = Len(lastIn.s)
    /\ \A i \in 1..Len(lastIn.s) : lastIn.s[i] = "." => (i <= Len(lastOut.s) /\ lastOut.s[i] = ".")

\* the number of digits in s
CountDigits(s) == Cardinality({i \in 1..Len(s) : IsDigit(s[i])})

\* the digits of a number literal before its decimal point (all of them if
\* it has none) and after it
DigitsBeforePoint(s) == CountDigits(Split(s, ".")[1])
DigitsAfterPoint(s) == CountDigits(s) - DigitsBeforePoint(s)

MaskedNumber == format = "numeric" /\ ncalls > 0 /\ lastIn.t = "number"

\* C23: the masked form of a json.Number is a valid JSON number, has a
\* decimal point exactly when the input has one, and has as many digits
\* before and after the point as the input (negative numbers and numbers
\* with an exponent included).
C23_JSONNumberShape ==
  MaskedNumber =>
    /\ lastOut.t = "number" /\ IsJSONNumber(lastOut.s)
    /\ Contains(lastOut.s, ".") <=> Contains(lastIn.s, ".")
    /\ DigitsBeforePoint(lastOut.s) = DigitsBeforePoint(lastIn.s)
    /\ DigitsAfterPoint(lastOut.s) = DigitsAfterPoint(lastIn.s)

\* the last call masked a string that reached the digits-with-separators
\* detector: not blank, neither integer nor decimal, only digits, whitespace
\* and '-'
MaskedNumLike ==
  /\ format = "numeric" /\ ncalls > 0 /\ lastIn.t = "string" /\ ~IsBlank(lastIn.s)
  /\ ~ParseInt(lastIn.s) /\ ~ParseFloat(lastIn.s) /\ NumLike(lastIn.s)

\* C24: a string of digits, whitespace and '-' that reaches the
\* digits-with-separators detector keeps its length, keeps every character
\* that is not a digit in its place, and has a digit wherever it had one.
C24_SeparatorsKept ==
  MaskedNumLike =>
    /\ lastOut.t = "string" /\ Len(lastOut.s) = Len(lastIn.s)
    /\ \A i \in 1..Len(lastIn.s) :
         IF IsDigit(lastIn.s[i]) THEN IsDigit(lastOut.s[i]) ELSE lastOut.s[i] = lastIn.s[i]

\* "5-0 " was masked: other digits around the same '-' and blank
C24_Witness ==
  /\ MaskedNumLike /\ lastIn.s = << "5", "-", "0", " " >>
  /\ lastOut.s # lastIn.s /\ lastOut.s[2] = "-" /\ lastOut.s[4] = " "

\* ------------------------------------------------- the order of detectors
MaxMatches == 3

\* a layout that sits at another place of the list
DateLayoutsSwapped ==
  << "RFC3339", "RFC3339Nano", "2006-01-02T15:04:05Z07:00", "2006-01-02 15:04:05",
     "2006-01", "2006-01-02", "01/02/2006", "RFC1123" >>

\* masker.dateLayouts as newMasker fills it
DateLayouts ==
  << "RFC3339", "RFC3339Nano", "2006-01-02T15:04:05Z07:00", "2006-01-02 15:04:05",
     "2006-01-02", "2006-01", "01/02/2006", "RFC1123" >>

\* the tests maskUncached makes on a string, each a library call or a
\* regular expression that accepts the string or not
Tests ==
  { "uuid.Parse", "iban.Validate", "creditCardRegex", "luhn.Valid", "phonenumbers.Parse",
    "currencyRegex", "ulidRegex", "ksuidRegex", "url.ParseRequestURI", "emailRegex",
    "net.ParseMAC", "net.ParseIP", "strconv.ParseInt", "strconv.ParseFloat",
    "numLikeRegex", "dateparse.ParseAny" }
  \cup {DateLayouts[i] : i \in 1..Len(DateLayouts)}

\* for _, layout := range m.dateLayouts: the first layout time.Parse
\* accepts, "" if none
RECURSIVE firstLayout(_, _)
firstLayout(acc, i) ==
  IF i > Len(DateLayouts) THEN ""
  ELSE IF DateLayouts[i] \in acc THEN DateLayouts[i]
  ELSE firstLayout(acc, i + 1)

\* the branch maskUncached takes for a non-blank string that the tests in
\* acc accept
stringBranch(acc) ==
  IF "uuid.Parse" \in acc THEN "uuid"
  ELSE IF "iban.Validate" \in acc THEN "iban"
  ELSE IF "creditCardRegex" \in acc /\ "luhn.Valid" \in acc THEN "creditcard"
  ELSE IF "phonenumbers.Parse" \in acc THEN "phone"
  ELSE IF "currencyRegex" \in acc THEN "currency"
  ELSE IF "ulidRegex" \in acc THEN "ulid"
  ELSE IF "ksuidRegex" \in acc THEN "ksuid"
  ELSE IF "url.ParseRequestURI" \in acc THEN "url"
  ELSE IF "emailRegex" \in acc THEN "email"
  ELSE IF "net.ParseMAC" \in acc THEN "mac"
  ELSE IF "net.ParseIP" \in acc THEN "ip"
  ELSE IF "strconv.ParseInt" \in acc THEN "integer"
  ELSE IF "strconv.ParseFloat" \in acc THEN "decimal"
  ELSE IF firstLayout(acc, 1) # "" THEN firstLayout(acc, 1)
  ELSE IF "numLikeRegex" \in acc THEN "digits"
  ELSE IF "dateparse.ParseAny" \in acc THEN "freedate"
  ELSE "words"

\* the subsets of S with at most n elements
RECURSIVE SubsetsUpTo(_, _)
SubsetsUpTo(S, n) ==
  IF n = 0 THEN {{}}
  ELSE LET sub == SubsetsUpTo(S, n - 1) IN sub \cup {x \cup {a} : x \in sub, a \in S}

InitDetect ==
  /\ format = "detect" /\ det = TRUE /\ cpuCount = 1 /\ firstN = 0 /\ stream = EmptyStream
  /\ writerFails = FALSE /\ include = << >> /\ exclude = << >> /\ children = << >>
  /\ IdleRun
  /\ cache = [m \in Maskers |-> {}]
  /\ ncalls = 0 /\ lastIn = {} /\ lastOut = "" /\ lastKey = << >> /\ lastAsked = << >>

\* maskUncached on a non-blank string accepted by the tests acc
DetectCall ==
  /\ format = "detect" /\ ncalls < 1
  /\ \E acc \in SubsetsUpTo(Tests, MaxMatches) :
       lastIn' = acc /\ lastOut' = stringBranch(acc)
  /\ ncalls' = ncalls + 1
  /\ UNCHANGED << cfgVars, runVars, cache, lastKey, lastAsked >>

SpecDetect == InitDetect /\ [][DetectCall]_vars

\* the detectors in the order stated, each with the tests that make it match
StatedOrder ==
  << [name |-> "uuid", needs |-> {"uuid.Parse"}],
     [name |-> "iban", needs |-> {"iban.Validate"}],
     [name |-> "creditcard", needs |-> {"creditCardRegex", "luhn.Valid"}],
     [name |-> "phone", needs |-> {"phonenumbers.Parse"}],
     [name |-> "currency", needs |-> {"currencyRegex"}],
     [name |-> "ulid", needs |-> {"ulidRegex"}],
     [name |-> "ksuid", needs |-> {"ksuidRegex"}],
     [name |-> "url", needs |-> {"url.ParseRequestURI"}],
     [name |-> "email", needs |-> {"emailRegex"}],
     [name |-> "mac", needs |-> {"net.ParseMAC"}],
     [name |-> "ip", needs |-> {"net.ParseIP"}],
     [name |-> "integer", needs |-> {"strconv.ParseInt"}],
     [name |-> "decimal", needs |-> {"strconv.ParseFloat"}],
     [name |-> "RFC3339", needs |-> {"RFC3339"}],
     [name |-> "RFC3339Nano", needs |-> {"RFC3339Nano"}],
     [name |-> "2006-01-02T15:04:05Z07:00", needs |-> {"2006-01-02T15:04:05Z07:00"}],
     [name |-> "2006-01-02 15:04:05", needs |-> {"2006-01-02 15:04:05"}],
     [name |-> "2006-01-02", needs |-> {"2006-01-02"}],
     [name |-> "2006-01", needs |-> {"2006-01"}],
     [name |-> "01/02/2006", needs |-> {"01/02/2006"}],
     [name |-> "RFC1123", needs |-> {"RFC1123"}],
     [name |-> "digits", needs |-> {"numLikeRegex"}],
     [name |-> "freedate", needs |-> {"dateparse.ParseAny"}],
     [name |-> "words", needs |-> {}] >>

\* the first detector of the stated order that matches
FirstStated(acc) ==
  StatedOrder[CHOOSE i \in 1..Len(StatedOrder) :
                /\ StatedOrder[i].needs \subseteq acc
                /\ \A j \in 1..(i - 1) : ~(StatedOrder[j].needs \subseteq acc)].name

\* C25: on a non-blank string maskUncached applies the first detector that
\* matches in the order UUID, IBAN, credit card (pattern and Luhn), phone,
\* currency, ULID, KSUID, URL, email, MAC, IP, integer, decimal, the eight
\* date layouts, digits-with-separators, free-form date, word fallback, and
\* it always applies one.
C25_DetectorOrder ==
  (format = "detect" /\ ncalls > 0) => lastOut = FirstStated(lastIn)

\* a string with a credit-card shape that fails the Luhn test, is an
\* integer and matches the digits pattern is masked as an integer
C25_Witness ==
  /\ format = "detect" /\ ncalls > 0
  /\ lastIn = {"creditCardRegex", "strconv.ParseInt", "numLikeRegex"}
  /\ lastOut = "integer"

\* ------------------------------------------------------------- CSV tables
MaxCols == 2

CSVNames == { << "a" >>, << "b" >> }

CSVFields == { << "5" >>, << "1", "2" >> }

\* header rows of one to MaxCols columns
CSVHeaders == SeqUpTo(CSVNames, MaxCols) \ { << >> }

\* the tables csv.Reader accepts: every record has as many fields as the
\* header (FieldsPerRecord is taken from the first record)
CSVTables ==
  UNION {[header : {h}, rows : SeqUpTo([1..Len(h) -> CSVFields], MaxChunks)] : h \in CSVHeaders}

\* the chunk reader of csvProcessor.Process: rowMap[header[i]] = value for
\* i in order, so that of the columns with one name the last one stays
rowMap(header, record) ==
  LET n == IF Len(record) < Len(header) THEN Len(record) ELSE Len(header)
      lastOfName == SelectSeq([i \in 1..n |-> i],
                              LAMBDA i : \A j \in (i + 1)..n : header[j] # header[i])
  IN Map([k \in 1..Len(lastOfName) |-> Entry(header[lastOfName[k]], Str(record[lastOfName[k]]))])

\* fmt.Sprintf("%v", val)
Sprintv(v) == IF v.t = "bool" THEN FormatBool(v.b) ELSE v.s

\* csvAssembler.WriteItem: record[i] is the map's value for header[i], ""
\* if the map has none
csvRecord(header, item) ==
  [i \in 1..Len(header) |->
     IF \E k \in 1..Len(item.kids) : item.kids[k].k = header[i]
       THEN Sprintv(item.kids[CHOOSE k \in 1..Len(item.kids) : item.kids[k].k = header[i]].v)
       ELSE << >>]

\* Run over the rows from row k on, one worker: the possible sequences of
\* records WriteItem writes, c being the worker's cache
RECURSIVE csvItems(_, _, _, _, _, _, _)
csvItems(c, sd, inc, exc, header, rows, k) ==
  IF k > Len(rows) THEN {<< >>}
  ELSE UNION {{<< csvRecord(header, r.out) >> \o rest :
                 rest \in csvItems(r.cache, sd, inc, exc, header, rows, k + 1)} :
              r \in recursiveMaskKey(c, sd, inc, exc, << >>, rowMap(header, rows[k]))}

InitCSV ==
  /\ format = "csvtable" /\ det \in BOOLEAN /\ cpuCount = 1 /\ firstN = 0 /\ stream = EmptyStream
  /\ writerFails = FALSE
  /\ include \in { << >>, << << "a" >> >> } /\ exclude = << >>
  /\ children = << >>
  /\ IdleRun
  /\ cache = [m \in Maskers |-> {}]
  /\ ncalls = 0 /\ lastIn = [header |-> << >>, rows |-> << >>] /\ lastOut = << >>
  /\ lastKey = << >> /\ lastAsked = << >>

\* csvProcessor.Process on one table: WriteStart writes the header, then
\* one record per row
CSVProcessCall ==
  /\ format = "csvtable" /\ ncalls < 1
  /\ \E t \in CSVTables : \E sd \in Seeders :
     \E items \in csvItems(cache[0], sd, include, exclude, t.header, t.rows, 1) :
       /\ lastIn' = t
       /\ lastOut' = << t.header >> \o items
  /\ ncalls' = ncalls + 1
  /\ UNCHANGED << cfgVars, runVars, cache, lastKey, lastAsked >>

SpecCSV == InitCSV /\ [][CSVProcessCall]_vars

\* what masking the field f can give
MasksOf(f) == {Sprintv(maskUncached(sd, Str(f))) : sd \in Seeders}

\* C26: the CSV header is written once, first and unmasked; every data row
\* written has as many fields as the header, and its field i is field i of
\* the same input row, unchanged if the column is filtered out and otherwise
\* unchanged or masked; no field has its value from another column or row.
C26_CSVFieldsInPlace ==
  (format = "csvtable" /\ ncalls > 0) =>
    /\ Len(lastOut) = 1 + Len(lastIn.rows)
    /\ lastOut[1] = lastIn.header
    /\ \A r \in 1..Len(lastIn.rows) :
         /\ Len(lastOut[r + 1]) = Len(lastIn.header)
         /\ \A i \in 1..Len(lastIn.header) :
              /\ lastOut[r + 1][i] \in {lastIn.rows[r][i]} \cup MasksOf(lastIn.rows[r][i])
              /\ ~shouldMask(lastIn.header[i], include, exclude) =>
                   lastOut[r + 1][i] = lastIn.rows[r][i]

\* ------------------------------------------------------------ text lines
\* textProcessor.Process without a limit on the lines (FirstN = 0), on any
\* number of lines, any end of the input and any writer; the lines all hold
\* the same text
InitText == Init /\ format = "text" /\ firstN = 0 /\ SameRecords

NextText ==
  \/ TextStart
  \/ TextScan
  \/ TextSend
  \/ \E w \in Workers : TextWorkerRecv(w)
  \/ \E w \in Workers : TextWorkerSend(w)
  \/ DispatcherClose
  \/ \E w \in Workers : WorkerExit(w)
  \/ SupervisorClose
  \/ TextWrite
  \/ TextReturn

SpecText == InitText /\ [][NextText]_vars

\* writer.WriteString(result + "\n")
textLine(result) == result.s \o << "\n" >>

RECURSIVE textOutput(_)
textOutput(k) == IF k = 0 THEN << >> ELSE textOutput(k - 1) \o textLine(written[k].data)

CountOf(c, s) == Cardinality({i \in 1..Len(s) : s[i] = c})

InitEdge == Init /\ format \in {"json", "csv"} /\ Len(stream.records) <= 1 /\ SameRecords

SpecEdge == InitEdge /\ [][NextRun]_vars

\* the input has no byte at all (the first read returns io.EOF)
EmptyReader == format \in {"json", "csv"} /\ stream.head = "empty"

\* the input is a properly closed JSON root array without elements
EmptyArray ==
  /\ format = "json" /\ stream.head = "ok" /\ stream.list
  /\ stream.records = << >> /\ stream.tail = "eof"

\* C28: on an empty input stream the JSON and the CSV processor return nil
\* and write nothing; on a JSON root array without elements Run never calls
\* WriteItem, calls WriteEnd only after WriteStart, and when the writes
\* succeed it returns nil having called WriteStart once and WriteEnd once.
C28_EmptyInputs ==
  /\ EmptyReader =>
       /\ startWritten = 0 /\ written = << >> /\ endWritten = 0
       /\ pcM \in {"idle", "returned"}
       /\ pcM = "returned" => retval = "nil"
  /\ EmptyArray =>
       /\ written = << >>
       /\ endWritten <= startWritten /\ startWritten <= 1
       /\ pcM = "returned" =>
            /\ retval \in {"nil", "asmErr"}
            /\ retval = "nil" <=> (startWritten = 1 /\ endWritten = 1)
            /\ ~writerFails => retval = "nil"

C28_Witness ==
  /\ EmptyArray /\ cpuCount = MaxWorkers /\ pcM = "returned" /\ retval = "nil"
  /\ startWritten = 1 /\ endWritten = 1 /\ written = << >>

\* ------------------------------------------------------ the reorder buffer
\* the jobs and results that exist: the one the dispatcher holds, the ones
\* the workers hold, the ones in resultsBuffer
Indexed == {e \in ({job} \cup {wres[w] : w \in Workers} \cup resultsBuffer) : e.id # 0}

\* C29: in Run the k-th chunk read gets the index k - 1 (0, 1, 2, ... in
\* read order); resultsBuffer never holds an index below nextIndexToWrite
\* and never two entries for one index; when the collector is back at the
\* receive, resultsBuffer has no entry for nextIndexToWrite; and
\* nextIndexToWrite is the number of WriteItem calls that were carried out,
\* which wrote the chunks 1, 2, ... in this order.
C29_ReorderBuffer ==
  (format # "text") =>
    /\ \A e \in Indexed : e.index = e.id - 1
    /\ jobIndex \in {nread, nread - 1}
    /\ pcD = "read" => jobIndex = nread
    /\ \A e \in resultsBuffer : e.index >= nextIndexToWrite
    /\ \A e, f \in resultsBuffer : e.index = f.index => e = f
    /\ pcM = "recv" => \A e \in resultsBuffer : e.index # nextIndexToWrite
    /\ pcM \in {"recv", "flush"} => nextIndexToWrite = Len(written)
    /\ \A k \in 1..Len(written) : written[k].id = k

C29_Witness ==
  /\ format = "json" /\ pcM = "recv" /\ arrived = << 2, 1 >>
  /\ nextIndexToWrite = 2 /\ Len(written) = 2 /\ resultsBuffer = {}

\* ------------------------------------------------- closing the channels
\* C30: in Run the jobs channel is closed by the dispatcher only, once, when
\* it has left its loop and holds no job to send; the results channel is
\* closed once, after every worker has returned (which, where there is a
\* worker, is after jobs was closed); and neither the dispatcher nor a worker is ever at a send on a channel that
\* is closed.
C30_ChannelsClosedOnce ==
  /\ jobsClosed <=> pcD = "done"
  /\ jobsClosed => job = NoJob
  /\ pcD \in {"read", "send", "close"} => ~jobsClosed
  /\ resultsClosed => \A w \in Active : pcW[w] = "done"
  /\ (resultsClosed /\ poolSize > 0) => jobsClosed
  /\ \A w \in Workers : pcW[w] = "send" => ~resultsClosed /\ w \in Active
  /\ \A w \in Workers : pcW[w] = "done" => jobsClosed /\ wres[w] = NoJob

C30_Witness ==
  /\ format = "json" /\ cpuCount = MaxWorkers /\ nread = MaxChunks
  /\ jobsClosed /\ resultsClosed /\ pcD = "done" /\ \A w \in Active : pcW[w] = "done"
  /\ Len(written) = MaxChunks

\* ------------------------------------------- a single root JSON object
\* the generator of a masker's faker: the seed it was last seeded with and
\* the draws made since
Faker(seed, pos) == [seed |-> seed, pos |-> pos]

\* newMasker, deterministic method: gofakeit.NewUnlocked(1)
NewFaker == Faker(1, 0)

\* the draws Numerify makes: one for every '#', one more to replace a '0' at the front
NumerifyDraws(seed, off, template) ==
  LET n == DrawsBefore(template, Len(template) + 1, TRUE)
      first == [i \in 1..Len(template) |->
                  IF template[i] = "#"
                    THEN Digits[Intn(seed, off + DrawsBefore(template, i, TRUE), 10) + 1]
                    ELSE template[i]]
  IN n + (IF Len(first) > 0 /\ first[1] = "0" THEN 1 ELSE 0)

\* the generator after maskUncached(v) of a deterministic masker: seeded by
\* SeedFaker (or by SeedFakerForWord for the last word), then advanced by
\* the draws of the branch taken
FakerAfter(sd, v) ==
  LET seed == SeedFaker(sd, v)
  IN CASE v.t = "string" ->
            IF IsBlank(v.s) THEN Faker(seed, 0)
            ELSE IF ParseInt(v.s) THEN Faker(seed, NumerifyDraws(seed, 0, Repeat("#", Len(v.s))))
            ELSE IF ParseFloat(v.s) THEN Faker(seed, NumerifyDraws(seed, 0, FloatTemplate(v.s)))
            ELSE IF NumLike(v.s) THEN Faker(seed, DrawsBefore(v.s, Len(v.s) + 1, FALSE))
            ELSE LET words == Split(v.s, " ")
                 IN Faker(SeedFakerForWord(sd, words[Len(words)], Len(words)), 1)
       [] v.t = "bool" -> Faker(seed, 1)
       [] OTHER -> Faker(seed, 0)

\* jsonProcessor.recursiveMask on a scalar: a json.Number is replaced by
\* m.faker.Numerify of its template, drawn from the generator as it stands;
\* a string, a bool or nil goes to m.mask, which on a cache miss seeds the
\* generator and draws from it
jsonMaskScalar(c, sd, fk, inc, exc, key, v) ==
  IF ~shouldMask(key, inc, exc) THEN {[out |-> v, cache |-> c, fk |-> fk]}
  ELSE IF v.t = "number"
    THEN {[out |-> Num(NumerifyAt(fk.seed, fk.pos, NumberTemplate(v.s))), cache |-> c,
           fk |-> Faker(fk.seed, fk.pos + NumerifyDraws(fk.seed, fk.pos, NumberTemplate(v.s)))]}
  ELSE IF v.t = "nil" THEN {[out |-> v, cache |-> c, fk |-> fk]}
  ELSE {[out |-> e.v, cache |-> c, fk |-> fk] : e \in CacheGet(c, getCacheKey(v))}
       \cup {[out |-> maskUncached(sd, v), cache |-> c2, fk |-> FakerAfter(sd, v)] :
               c2 \in {CacheSet(c, getCacheKey(v), maskUncached(sd, v)), c}}

\* jsonProcessor.recursiveMask on a map of scalars whose entries are visited
\* in the order todo (Go's map iteration takes any order)
RECURSIVE jsonMaskFields(_, _, _, _, _, _, _, _)
jsonMaskFields(c, sd, fk, inc, exc, key, obj, todo) ==
  IF todo = << >> THEN {[outs |-> << >>, cache |-> c, fk |-> fk]}
  ELSE LET k == obj.kids[Head(todo)].k
           fullKey == IF key # << >> THEN key \o << "." >> \o k ELSE k
       IN UNION {{[outs |-> (Head(todo) :> r1.out) @@ r2.outs, cache |-> r2.cache, fk |-> r2.fk] :
                    r2 \in jsonMaskFields(r1.cache, sd, r1.fk, inc, exc, key, obj, Tail(todo))} :
                 r1 \in jsonMaskScalar(c, sd, fk, inc, exc, fullKey, obj.kids[Head(todo)].v)}

\* the orders in which a map of n entries can be visited
Orders(n) == {p \in [1..n -> 1..n] : \A i, j \in 1..n : p[i] = p[j] => i = j}

ObjectValues == {Num(<< "5" >>), Num(<< "1", "2" >>), Str(StrTrue), Bool(TRUE)}

\* root objects of one or two fields
RootObjects ==
  {Map(<< Entry(<< "a" >>, v) >>) : v \in ObjectValues}
  \cup {Map(<< Entry(<< "a" >>, v), Entry(<< "b" >>, u) >>) : v \in ObjectValues, u \in ObjectValues}

\* processConcurrentObject run with the deterministic method, time and again
\* on one document
InitJSONObject ==
  /\ format = "jsonobject" /\ det = TRUE /\ cpuCount = 1 /\ firstN = 0 /\ stream = EmptyStream
  /\ writerFails = FALSE
  /\ include = << >> /\ exclude = << >> /\ children = << >>
  /\ IdleRun
  /\ cache = [m \in Maskers |-> {}]
  /\ ncalls = 0 /\ lastIn \in RootObjects /\ lastOut = << >> /\ lastKey = << >> /\ lastAsked = << >>

\* processConcurrentObject: decode, m := newMasker(...), recursiveMask(m, "", rawData), encode
ProcessObjectCall ==
  /\ format = "jsonobject" /\ ncalls < 2
  /\ \E sd \in Seeders : \E order \in Orders(Len(lastIn.kids)) :
     \E r \in jsonMaskFields({}, sd, NewFaker, include, exclude, << >>, lastIn, order) :
       /\ lastOut' = Append(lastOut, [lastIn EXCEPT !.kids =
                                        [i \in 1..Len(lastIn.kids) |-> Entry(lastIn.kids[i].k, r.outs[i])]])
       /\ lastAsked' = order
  /\ ncalls' = ncalls + 1
  /\ UNCHANGED << cfgVars, runVars, cache, lastIn, lastKey >>

SpecJSONObject == InitJSONObject /\ [][ProcessObjectCall]_vars

\* C31: with the deterministic method, a JSON number in a single root
\* object is masked to what the seeded substitution gives for that number and
\* the salt (the value maskUncached computes for it), so two runs on one
\* document give the number the same masked value, whatever the order in
\* which the fields are visited and whatever was masked before it.
C31_NumberInRootObject ==
  (format = "jsonobject" /\ det) =>
    \A n \in 1..Len(lastOut) : \A i \in 1..Len(lastIn.kids) :
      lastIn.kids[i].v.t = "number" =>
        /\ lastOut[n].kids[i].v = maskUncached(Seeder(TRUE, Salt, 0), lastIn.kids[i].v)
        /\ \A m \in 1..Len(lastOut) : lastOut[m].kids[i].v = lastOut[n].kids[i].v

\* ------------------------------------------------- truncated JSON arrays
\* root arrays whose input ends after a complete element, before the ']'
TruncatedArrays ==
  {[head |-> "ok", list |-> TRUE, records |-> rs, tail |-> "truncated"] :
     rs \in SeqUpTo({Str(StrTrue)}, MaxChunks) \ { << >> }}

\* the JSON processor on the streams of InitRun and on truncated arrays
InitTruncated ==
  /\ format = "json" /\ det \in BOOLEAN /\ cpuCount \in 0..MaxWorkers /\ firstN \in 0..MaxFirstN
  /\ stream \in Streams(format) \cup TruncatedArrays /\ writerFails \in BOOLEAN
  /\ include = << >> /\ exclude = << >> /\ children = << >>
  /\ IdleRun
  /\ cache = [m \in Maskers |-> {}]
  /\ ncalls = 0 /\ lastIn = Nil /\ lastOut = Nil /\ lastKey = << >> /\ lastAsked = << >>
  /\ SameRecords

SpecTruncated == InitTruncated /\ [][NextRun]_vars

\* C32: when the input of a root JSON array ends after some complete
\* elements and before the closing ']', and the chunk reader gets that far
\* (no FirstN limit stops it earlier, there is a worker to take the chunks),
\* processRootArray does not return nil.
C32_TruncatedArrayIsError ==
  (/\ format = "json" /\ stream \in TruncatedArrays /\ pcM = "returned"
   /\ cpuCount >= 1 /\ (firstN = 0 \/ firstN > Len(stream.records))) => retval # "nil"

\* ------------------------------------------------------ the word fallback
MaxWordsLen == 3

WordChars == {"a", "b", "A", " "}

\* the string reaches the last branch of maskUncached (of the detectors
\* only the blank, integer, decimal and digits-with-separators tests can
\* accept a string over WordChars)
ReachesWords(s) == ~IsBlank(s) /\ ~ParseInt(s) /\ ~ParseFloat(s) /\ ~NumLike(s)

WordInputs == {s \in SeqUpTo(WordChars, MaxWordsLen) : ReachesWords(s)}

\* two values masked one after the other by one masker, without its cache
InitWords ==
  /\ format = "words" /\ det \in BOOLEAN /\ cpuCount = 1 /\ firstN = 0 /\ stream = EmptyStream
  /\ writerFails = FALSE
  /\ include = << >> /\ exclude = << >> /\ children = << >>
  /\ IdleRun
  /\ cache = [m \in Maskers |-> {}]
  /\ ncalls = 0 /\ lastIn = << >> /\ lastOut = << >> /\ lastKey = << >> /\ lastAsked = << >>

\* m.maskUncached(s) for a string s
MaskWordsCall ==
  /\ format = "words" /\ ncalls < 2
  /\ \E s \in WordInputs : \E sd \in Seeders :
       /\ lastIn' = Append(lastIn, s)
       /\ lastOut' = Append(lastOut, maskUncached(sd, Str(s)))
  /\ ncalls' = ncalls + 1
  /\ UNCHANGED << cfgVars, runVars, cache, lastKey, lastAsked >>

SpecWords == InitWords /\ [][MaskWordsCall]_vars

StartsUpper(w) == Len(w) > 0 /\ IsUpper(w[1])

InitWriteFail == InitRun /\ stream.tail = "eof" /\ firstN = 0

SpecWriteFailFair == InitWriteFail /\ [][NextRun]_vars /\ WF_vars(NextRun)

\* the dispatcher, every worker and the supervisor are through
GoroutinesDone == pcD = "done" /\ resultsClosed /\ \A w \in Active : pcW[w] = "done"

\* C34: with at least one worker, when a write of the assembler has failed
\* and Run has returned that error, the dispatcher, all workers and the
\* supervisor eventually terminate.
C34_GoroutinesEndAfterWriteError ==
  (UsesRun /\ cpuCount >= 1 /\ Returned /\ retval = "asmErr") ~> GoroutinesDone

\* ------------------------------------------------------ Run without workers
\* C35: for every worker count, 0 included, once Run has returned nil the
\* chunk reader has been read to its io.EOF, it has reported no other
\* error, and every chunk it produced was written.
C35_NoSilentLoss ==
  (UsesRun /\ Returned /\ retval = "nil") =>
    /\ pcD = "done" /\ dispatchErr = "nil"
    /\ Len(written) = nread

\* ---------------------------------------------------------- peekingReader
MaxReads == 2
MaxReadLen == 2

PeekBytes == {" ", "["}

\* json.go isWhitespace (of PeekBytes only the blank is white space)
isWhitespace(c) == c \in {" ", "\n", "\r", "\t"}

\* what the underlying reader returns, read by read: the bytes and the
\* error of each Read; only the last Read reports an error, with or without
\* bytes, and after the last one every Read returns (0, io.EOF)
ReadSplits ==
  {rs \in SeqUpTo([data : SeqUpTo(PeekBytes, MaxReadLen), err : {"nil", "EOF", "ioerr"}], MaxReads) :
     \A i \in 1..Len(rs) : rs[i].err # "nil" => i = Len(rs)}

\* newPeekingReader(r)
newPeekingReader(rs) == [r |-> rs, peek |-> << >>, err |-> "nil"]

\* pr.r.Read(buf): the next Read of the underlying reader
UnderlyingRead(rs) ==
  IF rs = << >> THEN [data |-> << >>, err |-> "EOF", r |-> << >>]
  ELSE [data |-> Head(rs).data, err |-> Head(rs).err, r |-> Tail(rs)]

\* index of the first byte of buf that is not white space, 0 if there is none
FirstNonSpace(buf) ==
  IF \E i \in 1..Len(buf) : ~isWhitespace(buf[i])
    THEN CHOOSE i \in 1..Len(buf) : ~isWhitespace(buf[i]) /\ \A j \in 1..(i - 1) : isWhitespace(buf[j])
    ELSE 0

\* PeekFirstChar, the loop over pr.r.Read(buf): a Read that returns an error
\* ends it with that error, whatever bytes came with it
RECURSIVE PeekLoop(_)
PeekLoop(pr) ==
  LET rd == UnderlyingRead(pr.r)
      i == FirstNonSpace(rd.data)
  IN IF rd.err # "nil" THEN [c |-> "", err |-> rd.err, pr |-> [r |-> rd.r, peek |-> pr.peek, err |-> rd.err]]
     ELSE IF i # 0 THEN [c |-> rd.data[i], err |-> "nil",
                         pr |-> [r |-> rd.r, peek |-> SubSeq(rd.data, i, Len(rd.data)), err |-> pr.err]]
     ELSE PeekLoop([pr EXCEPT !.r = rd.r])

\* peekingReader.PeekFirstChar
PeekFirstChar(pr) ==
  IF pr.err # "nil" THEN [c |-> "", err |-> pr.err, pr |-> pr]
  ELSE IF FirstNonSpace(pr.peek) # 0
    THEN [c |-> pr.peek[FirstNonSpace(pr.peek)], err |-> "nil",
          pr |-> [pr EXCEPT !.peek = SubSeq(pr.peek, FirstNonSpace(pr.peek), Len(pr.peek))]]
  ELSE PeekLoop(pr)

\* peekingReader.Read(p) with len(p) = size
PeekingRead(pr, size) ==
  IF Len(pr.peek) > 0
    THEN LET n == IF size < Len(pr.peek) THEN size ELSE Len(pr.peek)
         IN [data |-> SubSeq(pr.peek, 1, n), err |-> "nil",
             pr |-> [pr EXCEPT !.peek = SubSeq(pr.peek, n + 1, Len(pr.peek))]]
  ELSE IF pr.err # "nil" THEN [data |-> << >>, err |-> pr.err, pr |-> pr]
  ELSE LET rd == UnderlyingRead(pr.r)
       IN [data |-> rd.data, err |-> rd.err, pr |-> [pr EXCEPT !.r = rd.r]]

\* the bytes a consumer (the JSON decoder) gets by calling Read until it
\* returns an error
RECURSIVE ReadToEnd(_, _)
ReadToEnd(pr, size) ==
  LET rd == PeekingRead(pr, size)
  IN IF rd.err # "nil" THEN rd.data ELSE rd.data \o ReadToEnd(rd.pr, size)

InitPeek ==
  /\ format = "peek" /\ det = FALSE /\ cpuCount = 1 /\ firstN = 0 /\ stream = EmptyStream
  /\ writerFails = FALSE
  /\ include = << >> /\ exclude = << >> /\ children = << >>
  /\ IdleRun
  /\ cache = [m \in Maskers |-> {}]
  /\ ncalls = 0 /\ lastIn = << >> /\ lastOut = Nil /\ lastKey = << >> /\ lastAsked = << >>

\* jsonProcessor.Process: br := newPeekingReader(r); br.PeekFirstChar();
\* the decoder then reads br to its end
PeekCall ==
  /\ format = "peek" /\ ncalls < 1
  /\ \E rs \in ReadSplits : \E size \in 1..MaxReadLen :
       LET pk == PeekFirstChar(newPeekingReader(rs))
       IN /\ lastIn' = rs
          /\ lastOut' = [c |-> pk.c, err |-> pk.err,
                         delivered |-> IF pk.err = "nil" THEN ReadToEnd(pk.pr, size) ELSE << >>]
  /\ ncalls' = ncalls + 1
  /\ UNCHANGED << cfgVars, runVars, cache, lastKey, lastAsked >>

SpecPeek == InitPeek /\ [][PeekCall]_vars

RECURSIVE StreamOf(_)
StreamOf(rs) == IF rs = << >> THEN << >> ELSE Head(rs).data \o StreamOf(Tail(rs))

\* C36: however the underlying reader splits the stream into reads, a last
\* read that returns bytes together with an error or io.EOF included,
\* PeekFirstChar returns the first byte of the stream that is not white
\* space if there is one, and the bytes peekingReader.Read then delivers are
\* the stream from that byte to its end.
C36_PeekLosesNothing ==
  (format = "peek" /\ ncalls > 0) =>
    LET st == StreamOf(lastIn)
        k == FirstNonSpace(st)
    IN k # 0 => /\ lastOut.err = "nil" /\ lastOut.c = st[k]
                /\ lastOut.delivered = SubSeq(st, k, Len(st))

\* ------------------------------------------------- the deterministic cache
\* C37: on a deterministic masker every call mask(v) with v not nil returns
\* what maskUncached(v) returns for that v, whatever was masked before: a
\* cache hit never gives a result that was computed for another input.
C37_CacheTransparent ==
  (format = "mask" /\ det /\ ncalls > 0 /\ lastIn.t # "nil")
    => lastOut = maskUncached(Seeder(TRUE, Salt, 0), lastIn)

\* ------------------------------------------------------ the masking method
\* values of MaskerConfig.Method: the two constants and two other strings
Methods == {"random", "deterministic", "", "hash"}

\* newMasker: the switch on config.Method builds the masker or panics
newMasker(method) == IF method \in {"deterministic", "random"} THEN "masker" ELSE "panic"

\* Start on a configuration with the given Masker.Method, up to the point
\* where the first masker is built: the error of a pattern or of the format,
\* the early returns of Process on an empty or unreadable input, and then
\* newMasker, called by every worker as it starts (Run with its cpuCount
\* workers, the text processor with its pool) or by the calling goroutine
\* (single root JSON object, serial XML).  Nothing before newMasker looks at
\* the method.
StartOutcome(method) ==
  IF ~ConfigOk THEN "configErr"
  ELSE IF format = "text"
    THEN IF newMasker(method) = "panic" THEN "panicInWorker" ELSE "processes"
  ELSE IF stream.head = "ioerr" THEN "readErr"
  ELSE IF stream.head = "empty" THEN "nil"
  ELSE IF stream.list
    THEN IF poolSize >= 1 /\ newMasker(method) = "panic" THEN "panicInWorker" ELSE "processes"
  ELSE IF format = "json" /\ Len(stream.records) = 0 THEN "decodeErr"
  ELSE IF newMasker(method) = "panic" THEN "panicInCaller" ELSE "processes"

InitMethod ==
  /\ format \in StartFormats /\ det = FALSE /\ cpuCount \in 0..MaxWorkers /\ firstN = 0
  /\ stream \in Streams(IF format \in Formats THEN format ELSE "json") /\ SameRecords
  /\ writerFails = FALSE
  /\ include \in StartPatternLists /\ exclude = << >>
  /\ children = << >>
  /\ IdleRun
  /\ cache = [m \in Maskers |-> {}]
  /\ ncalls = 0 /\ lastIn \in Methods /\ lastOut = "pending" /\ lastKey = << >> /\ lastAsked = << >>

\* Start(r, w, config) with config.Masker.Method = lastIn
StartMethodCall ==
  /\ ncalls < 1
  /\ lastOut' = StartOutcome(lastIn)
  /\ ncalls' = ncalls + 1
  /\ UNCHANGED << cfgVars, runVars, cache, lastIn, lastKey, lastAsked >>

SpecMethod == InitMethod /\ [][StartMethodCall]_vars

\* C38: Start called with a Masker.Method that is neither "random" nor
\* "deterministic" returns a configuration error; it does not panic, neither
\* on the calling goroutine nor in a worker.
C38_UnknownMethodIsError ==
  (ncalls > 0 /\ lastIn \notin {"random", "deterministic"}) => lastOut = "configErr"

\* -------------------------------------------------------- XML list items
MaxItemLen == 3

ItemChildNames == {"a", "b"}
ItemAttrNames == {"x", "y"}

\* the content of a list item in document order: text segments and child
\* elements named a or b (two text segments are separated by a child)
ItemContents ==
  {c \in SeqUpTo({"#text"} \cup ItemChildNames, MaxItemLen) :
     \A i \in 1..(Len(c) - 1) : ~(c[i] = "#text" /\ c[i + 1] = "#text")}

\* the positions of content that hold kind, in document order
RECURSIVE PositionsOf(_, _, _)
PositionsOf(content, kind, i) ==
  IF i > Len(content) THEN << >>
  ELSE (IF content[i] = kind THEN << i >> ELSE << >>) \o PositionsOf(content, kind, i + 1)

\* decodeElementToMap: the attributes under "-name"; under "#text" the last
\* non-blank text segment (every CharData token overwrites the entry; 0: no
\* entry); under each child name the children of that name in document
\* order (one map, or a slice once the name repeats)
decodeElementToMap(attrs, content) ==
  LET texts == PositionsOf(content, "#text", 1)
  IN [attrs |-> attrs,
      text |-> IF texts = << >> THEN 0 ELSE texts[Len(texts)],
      kids |-> [n \in ItemChildNames |-> PositionsOf(content, n, 1)]]

\* mapToXML, the second range over m: the child names are visited in the
\* order names (Go's map iteration takes any order), the children of one
\* name in slice order
RECURSIVE childNodes(_, _)
childNodes(m, names) ==
  IF names = << >> THEN << >>
  ELSE [i \in 1..Len(m.kids[Head(names)]) |-> [kind |-> Head(names), at |-> m.kids[Head(names)][i]]]
       \o childNodes(m, Tail(names))

\* the orders in which the keys of a set can be visited
OrdersOf(S) == {p \in [1..Cardinality(S) -> S] : \A i, j \in 1..Cardinality(S) : p[i] = p[j] => i = j}

\* mapToXML: the start tag with the attributes, the "#text" entry if there
\* is one, then the children
mapToXML(m) ==
  {[attrs |-> m.attrs,
    nodes |-> (IF m.text # 0 THEN << [kind |-> "#text", at |-> m.text] >> ELSE << >>)
              \o childNodes(m, names)] :
     names \in OrdersOf({n \in ItemChildNames : m.kids[n] # << >>})}

\* one list item on the concurrent XML path, with patterns that select no
\* key: the chunk reader decodes it, the worker leaves it as it is, WriteItem
\* writes it
InitXMLItem ==
  /\ format = "xmlitem" /\ det = FALSE /\ cpuCount = 1 /\ firstN = 0 /\ stream = EmptyStream
  /\ writerFails = FALSE
  /\ include = << >> /\ exclude = << >> /\ children = << >>
  /\ IdleRun
  /\ cache = [m \in Maskers |-> {}]
  /\ ncalls = 0 /\ lastIn = [attrs |-> {}, content |-> << >>] /\ lastOut = [attrs |-> {}, nodes |-> << >>]
  /\ lastKey = << >> /\ lastAsked = << >>

XMLItemCall ==
  /\ format = "xmlitem" /\ ncalls < 1
  /\ \E attrs \in SUBSET ItemAttrNames : \E content \in ItemContents :
     \E out \in mapToXML(decodeElementToMap(attrs, content)) :
       /\ lastIn' = [attrs |-> attrs, content |-> content]
       /\ lastOut' = out
  /\ ncalls' = ncalls + 1
  /\ UNCHANGED << cfgVars, runVars, cache, lastKey, lastAsked >>

SpecXMLItem == InitXMLItem /\ [][XMLItemCall]_vars

\* the nodes of the input item, in document order
InputNodes(content) == [i \in 1..Len(content) |-> [kind |-> content[i], at |-> i]]

\* C39: a list item is written with all its attributes, all its text
\* segments and all its child elements, and the child elements are written
\* in the order they have in the input.
C39_ItemWrittenWhole ==
  (format = "xmlitem" /\ ncalls > 0) =>
    /\ lastOut.attrs = lastIn.attrs
    /\ SelectSeq(lastOut.nodes, LAMBDA n : n.kind # "#text")
         = SelectSeq(InputNodes(lastIn.content), LAMBDA n : n.kind # "#text")
    /\ {lastOut.nodes[i] : i \in 1..Len(lastOut.nodes)}
         = {InputNodes(lastIn.content)[i] : i \in 1..Len(lastIn.content)}

====
